---- MODULE Spec2Model ----
(***************************************************************************)
(* Dispatch core of the agent: the Event Gateway consumer                  *)
(* (MessagingManager.setupConsumer), the dispatcher                        *)
(* (Agent.handleIncomingMessage), the Master Model decision path           *)
(* (LLMManager.processMasterModelMessage) and the Capability Registry      *)
(* (FunctionManager), with the administrative socket handlers of index.ts. *)
(*                                                                         *)
(* The acknowledgment queue and the outgoing queue are kept as their       *)
(* projections on the correlation id: ackQueue[e] is the sequence of       *)
(* acknowledgments whose correlationId is event e, in publication order.   *)
(* An event type is the sequence of its colon-separated segments, so       *)
(* "function:execute" is <<"function", "execute">>.                        *)
(***************************************************************************)
EXTENDS Integers, Sequences, FiniteSets, TLC

MaxEvents == 1
MaxX == 2
MaxKeys == 2      \* largest credential pool
MaxCalls == 3     \* direct calls in a run of a manager's interface
MaxJobs == 2      \* jobs submitted to the queue

Events == 1..MaxEvents
Params == 1..MaxX

VARIABLES
  registry,        \* FunctionManager.registry (own properties)
  hasFM,           \* Agent.functionManager is defined
  hasJQ,           \* Agent.jobQueueManager is defined
  hasLLM,          \* Agent.llmManager is defined
  isConnected,     \* MessagingManager.isConnected
  msg,             \* the IncomingMessage built by the consumer for each delivery
  pc,              \* position of the task processing each delivery
  result,          \* outcome of the processing (response or raised error)
  ackQueue,        \* acknowledgment queue, per correlation id
  outgoingQueue,   \* outgoing queue, messages published while processing the event
  emitted,         \* what was published for the event, on either queue, in order
  brokerSettled,   \* channel.ack / channel.nack calls for the delivery
  handlerRuns,     \* capability handlers entered while processing the event
  mmCalls,         \* processMasterModelMessage invocations while processing the event
  jobsAdded,       \* jobs submitted while processing the event
  mmResponse,      \* what the Master Model's sendMessage returned for the event
  mmOutcome,       \* what processMasterModelMessage returned or raised for the event
  lastOp,          \* last administrative call and what it reported
  apiKeys,         \* FunctionManager.apiKeys: the pool of each credential name
  invocations,     \* direct FunctionManager.executeFunction calls and their outcomes
  agentLLM,        \* Agent.config.llm: the base config and the models to register
  llmConfig,       \* LLMManager.config
  modelRegistry,   \* LLMManager.modelRegistry (own properties)
  masterModel,     \* LLMManager.masterModel
  clients,         \* providers whose API client the LLMManager holds
  llmApiKeys,      \* LLMManager.apiKeys
  llmCall,         \* last call of the LLMManager's interface and its outcome
  llmSteps,        \* calls of the LLMManager's interface made so far
  jobStore,        \* the queue's jobs in Redis, by the id the queue gave them
  jobCounter,      \* the queue's id counter
  jobHandles,      \* ids that addJob has returned so far
  jobCall,         \* last call of the JobQueueManager's interface and its outcome
  incomingSchemas  \* message types with a registered incoming schema

vars == <<registry, hasFM, hasJQ, hasLLM, isConnected, msg, pc, result, ackQueue,
          outgoingQueue, emitted, brokerSettled, handlerRuns, mmCalls, jobsAdded, mmResponse,
          mmOutcome, lastOp, apiKeys, invocations, agentLLM, llmConfig, modelRegistry,
          masterModel, clients, llmApiKeys, llmCall, llmSteps, jobStore, jobCounter,
          jobHandles, jobCall, incomingSchemas>>

jobState == <<jobStore, jobCounter, jobHandles, jobCall>>

creds == <<apiKeys, invocations>>
llmState == <<agentLLM, llmConfig, modelRegistry, masterModel, clients, llmApiKeys, llmCall,
              llmSteps>>

\* What the dispatcher and the managers' calls leave alone: the components the
\* agent holds and the gateway's schemas
config == <<hasFM, hasJQ, hasLLM, incomingSchemas>>

----------------------------------------------------------------------------
(* Values *)

Undefined == [k |-> "undefined"]
ProtoFn == [k |-> "proto"]          \* a member inherited from Object.prototype
NoMsg == [k |-> "none"]
NoResult == [k |-> "pending"]

Absent == "absent"      \* a missing string field

Ok(v) == [ok |-> TRUE, val |-> v]
Err(m) == [ok |-> FALSE, err |-> m]

Num(n) == [k |-> "num", n |-> n]
Placeholder == [k |-> "placeholder", received |-> TRUE, processed |-> FALSE,
                message |-> "Unhandled message type"]
MessageId == [k |-> "messageId"]
JobId == [k |-> "jobId"]
JobStatusValue == [k |-> "status"]
LLMResponse == [k |-> "llmResponse"]
NoneResult == [k |-> "none", action |-> "none"]
UnknownAction == [k |-> "unknownAction", error |-> "Unknown action type"]
WebhookResult(v) == [k |-> "webhook", processed |-> TRUE, masterModelDecision |-> v]

----------------------------------------------------------------------------
(* Event types *)

EventTypes ==
  { <<"function", "execute">>, <<"function", "execute", "withmodel">>,
    <<"job", "schedule">>, <<"job", "status">>,
    <<"llm", "generate">>, <<"llm", "completion">>, <<"llm", "chat">>,
    <<"function", "other">>, <<"function">>, <<"chat", "ask">> }

\* type.startsWith(prefix + ':')
StartsWith(type, prefix) == Len(type) > 1 /\ type[1] = prefix

ReservedPrefix(type) ==
  StartsWith(type, "function") \/ StartsWith(type, "job") \/ StartsWith(type, "llm")

----------------------------------------------------------------------------
(* Capability Registry *)

CapNames == {"double", "processWebhook"}
ProtoNames == {"toString"}
AllNames == CapNames \cup ProtoNames \cup {"missing"}

\* Capabilities that declare a credential name (functions/weatherFunction.ts,
\* functions/sentimentFunction.ts)
CredCapNames == {"getWeather", "analyzeSentiment"}
RegNames == AllNames \cup CredCapNames

Bodies == {"double", "triple", "webhook"}
CredBodies == {"weather", "sentiment"}
Def(n, b) == [k |-> "def", name |-> n, body |-> b, apiKeyName |-> Absent]
DefWithKey(n, b, a) == [k |-> "def", name |-> n, body |-> b, apiKeyName |-> a]
Defs == {Def(n, b) : n \in AllNames, b \in Bodies}

EmptyRegistry == [n \in RegNames |-> Undefined]

\* this.registry[name] on a plain object: own property, else the prototype chain
Lookup(reg, name) ==
  IF reg[name] # Undefined THEN reg[name]
  ELSE IF name \in ProtoNames THEN ProtoFn
  ELSE Undefined

listFunctions(reg) == {n \in RegNames : reg[n] # Undefined}

\* The schema of a definition: its name, and its description and parameters,
\* which the body stands for
Schema(def) == [name |-> def.name, of |-> def.body]

\* Schemas of everything a lookup by name resolves, inherited members included
getAllFunctionSchemas_Inherited(reg) ==
  [n \in {m \in RegNames : Lookup(reg, m) # Undefined} |->
     IF reg[n] # Undefined THEN Schema(reg[n]) ELSE [name |-> n, of |-> "inherited"]]

\* FunctionManager.getAllFunctionSchemas: Object.values(this.registry) mapped to
\* schemas, one entry per own property
getAllFunctionSchemas(reg) == [n \in listFunctions(reg) |-> Schema(reg[n])]

\* LLMManager.prepareFunctionCalling: what a request offers as functions
prepareFunctionCalling(fm, reg) ==
  IF ~fm THEN Undefined
  ELSE IF DOMAIN getAllFunctionSchemas(reg) = {} THEN Undefined
  ELSE getAllFunctionSchemas(reg)

\* Credentials: a key is a non-empty string; EmptyKey is the empty string
Key(i) == [k |-> "key", i |-> i]
EmptyKey == Key(0)
NoKey == [k |-> "nokey", i |-> 0]
Falsy(key) == key = NoKey \/ key = EmptyKey

KeyNames == {"weather", "Weather", "sentiment", "constructor"}
PoolNames == {"weather", "sentiment"}
ToLowerCase(a) == IF a = "Weather" THEN "weather" ELSE a

Pool(n) == [i \in 1..n |-> Key(i)]
Pools == {Pool(n) : n \in 0..MaxKeys} \cup {<<EmptyKey>>}
\* this.apiKeys['constructor'] is the inherited Object function: its length is
\* 1 and it has no element 0
ProtoPool == <<NoKey>>

\* FunctionManager.getApiKeys
getApiKeys(apiKeyName) ==
  LET normalizedName == ToLowerCase(apiKeyName) IN
  IF normalizedName \in PoolNames THEN apiKeys[normalizedName]
  ELSE IF normalizedName = "constructor" THEN ProtoPool
  ELSE <<>>

\* FunctionManager.getApiKey(apiKeyName, index)
getApiKey(apiKeyName, index) ==
  LET keys == getApiKeys(apiKeyName) IN
  IF Len(keys) > 0 THEN keys[(index % Len(keys)) + 1] ELSE NoKey

\* FunctionContext: llm.manager present, apiKey, messageId is the event's id,
\* messageType (the empty sequence when absent)
Ctx(llm, apiKey, messageId, messageType) ==
  [llm |-> llm, apiKey |-> apiKey, messageId |-> messageId, messageType |-> messageType]
NoContext == Ctx(FALSE, NoKey, FALSE, <<>>)
MessageCtx(type) == Ctx(FALSE, NoKey, TRUE, type)

\* One entry of a handler: the definition and the context it was given
Run(func, ctx) == [func |-> func, ctx |-> ctx]

Returned(out, runs) == [k |-> "return", out |-> out, runs |-> runs]
AwaitMM(runs) == [k |-> "await_mm", runs |-> runs]

WeatherReport == [k |-> "weather"]
SentimentReport == [k |-> "sentiment"]

\* func.handler(params, context) for the handlers of the model
RunHandler(func, x, ctx) ==
  CASE func.body = "double" -> Returned(Ok(Num(2 * x)), <<Run(func, ctx)>>)
    [] func.body = "triple" -> Returned(Ok(Num(3 * x)), <<Run(func, ctx)>>)
    [] func.body = "webhook" ->
         IF ctx.llm THEN AwaitMM(<<Run(func, ctx)>>)
         ELSE Returned(Err("LLM manager not available in function context"),
                       <<Run(func, ctx)>>)
    [] func.body = "weather" ->
         IF Falsy(ctx.apiKey)
         THEN Returned(Err("Weather API key not provided"), <<Run(func, ctx)>>)
         ELSE Returned(Ok(WeatherReport), <<Run(func, ctx)>>)
    [] func.body = "sentiment" -> Returned(Ok(SentimentReport), <<Run(func, ctx)>>)

\* A credential step that lets the call through without a key
ResolveApiKey_NoCheck(func, ctx) == [ok |-> TRUE, ctx |-> ctx]

\* Lines 169-180 of executeFunction: the key of the declared credential name
\* is put in the context unless the caller's context carries one
ResolveApiKey(func, ctx) ==
  IF func.apiKeyName # Absent /\ Falsy(ctx.apiKey)
  THEN LET apiKey == getApiKey(func.apiKeyName, 0) IN
       IF Falsy(apiKey) THEN [ok |-> FALSE, ctx |-> ctx]
       ELSE [ok |-> TRUE, ctx |-> [ctx EXCEPT !.apiKey = apiKey]]
  ELSE [ok |-> TRUE, ctx |-> ctx]

executeFunction(reg, name, x, ctx) ==
  LET func == Lookup(reg, name) IN
  IF func = Undefined THEN Returned(Err("Function not found"), <<>>)
  ELSE IF func = ProtoFn THEN Returned(Err("func.handler is not a function"), <<>>)
  ELSE LET c == ResolveApiKey(func, ctx) IN
       IF ~c.ok THEN Returned(Err("No API key found"), <<>>)
       ELSE RunHandler(func, x, c.ctx)

----------------------------------------------------------------------------
(* Master Model responses *)

\* The content of a model response, described by what JSON.parse makes of it.
TextContent == [j |-> "text"]                       \* not JSON
NullContent == [j |-> "null"]                       \* the JSON value null
ScalarContent == [j |-> "scalar"]                   \* a JSON number, string, boolean or array
Directive(a, fn, p, jn, d) ==
  [j |-> "obj", action |-> a, functionName |-> fn, params |-> p, jobName |-> jn, data |-> d]
NoParams == 0           \* a missing params field

ExecuteDirectives ==
  {Directive("executeFunction", n, x, Absent, Absent) : n \in {"double"}, x \in Params}
  \cup {Directive("executeFunction", n, 1, Absent, Absent) : n \in AllNames \ {"double"}}
  \cup {Directive("executeFunction", Absent, 1, Absent, Absent),
        Directive("executeFunction", "double", NoParams, Absent, Absent)}

ScheduleDirectives ==
  {Directive("scheduleJob", Absent, NoParams, "job", "data"),
   Directive("scheduleJob", Absent, NoParams, Absent, "data"),
   Directive("scheduleJob", Absent, NoParams, "job", Absent)}

OtherDirectives ==
  {Directive(a, Absent, NoParams, Absent, Absent) : a \in {"sendResponse", "none", "bogus", Absent}}

Contents ==
  {TextContent, NullContent, ScalarContent}
  \cup ExecuteDirectives \cup ScheduleDirectives \cup OtherDirectives

\* A response with functionCalls: the first call, and the content beside it
ToolCallContents == {TextContent, Directive("sendResponse", Absent, NoParams, Absent, Absent)}
ToolCalls ==
  {[k |-> "toolcall", name |-> "double", x |-> x, c |-> c] :
     x \in Params, c \in ToolCallContents}
  \cup {[k |-> "toolcall", name |-> n, x |-> 1, c |-> TextContent] : n \in AllNames \ {"double"}}

MMResponses ==
  {[k |-> "throw"]} \cup ToolCalls \cup {[k |-> "content", c |-> c] : c \in Contents}

\* JSON.parse(response.content)
ParseJSON(c) == IF c.j = "text" THEN [ok |-> FALSE] ELSE [ok |-> TRUE, value |-> c]

\* An outgoing message; corr tells whether its correlationId is the event's id
Outgoing(type, payload, corr) == [type |-> type, payload |-> payload, corr |-> corr]

MMResult(out, runs, outs, jobs) == [out |-> out, runs |-> runs, outs |-> outs, jobs |-> jobs]

\* A test of the executeFunction directive that looks at the name only
ValidExecute_NameOnly(action) == action.functionName # Absent

\* Line 592: the executeFunction directive has a functionName and params
ValidExecute(action) == action.functionName # Absent /\ action.params # NoParams

\* A scheduleJob case that submits without looking for the Job Queue Manager
ScheduleJob_NoCheck(action) ==
  IF action.jobName = Absent \/ action.data = Absent
  THEN MMResult(Err("Invalid job scheduling request"), <<>>, <<>>, 0)
  ELSE MMResult(Ok(JobId), <<>>, <<>>, 1)

\* Lines 602-617: the scheduleJob case
ScheduleJob(action) ==
  IF ~hasJQ THEN MMResult(Err("Job Queue Manager not available"), <<>>, <<>>, 0)
  ELSE IF action.jobName = Absent \/ action.data = Absent
  THEN MMResult(Err("Invalid job scheduling request"), <<>>, <<>>, 0)
  ELSE MMResult(Ok(JobId), <<>>, <<>>, 1)

\* A none case that submits the directive's job all the same
NoneCase_Submits(action) == MMResult(Ok(NoneResult), <<>>, <<>>, 1)

\* Lines 631-632: the none case
NoneCase(action) == MMResult(Ok(NoneResult), <<>>, <<>>, 0)

\* A tool call executed with no context
ToolCallContext_Empty(corr, type) == NoContext

\* Lines 572-575: the context of a tool call, { messageId, messageType }
ToolCallContext(corr, type) == Ctx(FALSE, NoKey, corr = "event", type)

\* processMasterModelMessage once sendMessage has returned resp
\* (type is the type of the message it was called with, corr tells whether
\* that message carries the event's id)
MMAct(reg, resp, corr, type) ==
  IF resp.k = "throw" THEN MMResult(Err("provider failure"), <<>>, <<>>, 0)
  ELSE IF resp.k = "toolcall" THEN
    LET r == executeFunction(reg, resp.name, resp.x, ToolCallContext(corr, type))
    IN MMResult(r.out, r.runs, <<>>, 0)
  ELSE
    LET parsed == ParseJSON(resp.c)
        raw == ~parsed.ok
        action == IF parsed.ok THEN parsed.value
                  ELSE Directive("sendResponse", Absent, NoParams, Absent, Absent)
    IN
    CASE action.j = "null" ->
           MMResult(Err("Cannot read properties of null"), <<>>, <<>>, 0)
      [] action.j = "scalar" -> MMResult(Ok(UnknownAction), <<>>, <<>>, 0)
      [] action.j = "obj" /\ action.action = "executeFunction" ->
           IF ~ValidExecute(action)
           THEN MMResult(Err("Invalid function execution request"), <<>>, <<>>, 0)
           ELSE LET r == executeFunction(reg, action.functionName, action.params,
                                         Ctx(FALSE, NoKey, corr = "event", type))
                IN MMResult(r.out, r.runs, <<>>, 0)
      [] action.j = "obj" /\ action.action = "scheduleJob" ->
           ScheduleJob(action)
      [] action.j = "obj" /\ action.action = "sendResponse" ->
           IF ~isConnected
           THEN MMResult(Err("Not connected to message broker"), <<>>, <<>>, 0)
           ELSE MMResult(Ok(MessageId), <<>>,
                  << Outgoing(IF raw THEN "text" ELSE "response",
                              [content |-> IF raw THEN "raw" ELSE "directive"], corr) >>, 0)
      [] action.j = "obj" /\ action.action = "none" -> NoneCase(action)
      [] OTHER -> MMResult(Ok(UnknownAction), <<>>, <<>>, 0)

----------------------------------------------------------------------------
(* Agent.handleIncomingMessage *)

Message(type, replyTo, name, x) ==
  [k |-> "msg", type |-> type, replyTo |-> replyTo, name |-> name, x |-> x]

\* Payloads: name and params matter to the function: types only
Messages ==
  {Message(t, r, "double", x) :
     t \in {<<"function", "execute">>, <<"function", "execute", "withmodel">>},
     r \in BOOLEAN, x \in Params}
  \cup {Message(t, r, n, 1) :
     t \in {<<"function", "execute">>, <<"function", "execute", "withmodel">>},
     r \in BOOLEAN, n \in AllNames \ {"double"}}
  \cup {Message(t, r, Absent, 1) :
     t \in EventTypes \ {<<"function", "execute">>, <<"function", "execute", "withmodel">>},
     r \in BOOLEAN}

Ack(status, details) == [status |-> status, details |-> details]
ReceiptAck == Ack("success", [received |-> TRUE])
ProcessedAck == Ack("success", [processed |-> TRUE])
ErrorAck(m) == Ack("error", [error |-> m])

\* What one step of a task adds to the event's record
Effects(runs, outs, jobs, mm) == [runs |-> runs, outs |-> outs, jobs |-> jobs, mm |-> mm]
NoEffects == Effects(<<>>, <<>>, 0, 0)
\* One publication for the event and the place in the code that made it:
\* "receipt" (consumer callback), "published" (while executing), "reply", "ack"
Emit(at, m) == [at |-> at, m |-> m]
Emits(at, seq) == [i \in 1..Len(seq) |-> Emit(at, seq[i])]

\* A step publishes what its execution published, then its acknowledgments
Step(p, out, acks, eff) ==
  [pc |-> p, out |-> out, acks |-> acks, eff |-> eff,
   emits |-> Emits("published", eff.outs) \o Emits("ack", acks)]

\* The consumer callback's receipt acknowledgment precedes the step (line 110 of
\* MessagingManager.ts)
Received(s) ==
  [s EXCEPT !.acks = <<ReceiptAck>> \o @, !.emits = Emits("receipt", <<ReceiptAck>>) \o @]

\* A catch block that acknowledges with status success
CatchBlock_SuccessStatus(err, eff) ==
  IF isConnected THEN Step("done", err, <<Ack("success", [error |-> err.err])>>, eff)
  ELSE Step("rejected", err, <<>>, eff)

\* Lines 338-353: the catch block; sendAcknowledgment raises when not connected
\* and the task then ends rejected
CatchBlock(err, eff) ==
  IF isConnected THEN Step("done", err, <<ErrorAck(err.err)>>, eff)
  ELSE Step("rejected", err, <<>>, eff)

\* Lines 318-326: the reply, for an event that declared a reply target
Reply(m, out) == IF m.replyTo THEN <<Outgoing("response", out.val, "event")>> ELSE <<>>

\* A dispatcher that acknowledges before it replies
Finish_AckBeforeReply(m, out, eff) ==
  IF ~out.ok THEN CatchBlock(out, eff)
  ELSE IF ~isConnected THEN CatchBlock(Err("Not connected to message broker"), eff)
  ELSE [Step("done", out, <<ProcessedAck>>, [eff EXCEPT !.outs = @ \o Reply(m, out)])
          EXCEPT !.emits = Emits("published", eff.outs) \o Emits("ack", <<ProcessedAck>>)
                             \o Emits("reply", Reply(m, out))]

\* Lines 318-353: reply, processing acknowledgment, and the catch block
Finish(m, out, eff) ==
  IF ~out.ok THEN CatchBlock(out, eff)
  ELSE IF ~isConnected THEN CatchBlock(Err("Not connected to message broker"), eff)
  ELSE [Step("done", out, <<ProcessedAck>>, [eff EXCEPT !.outs = @ \o Reply(m, out)])
          EXCEPT !.emits = Emits("published", eff.outs) \o Emits("reply", Reply(m, out))
                             \o Emits("ack", <<ProcessedAck>>)]

\* A default case that raises
DefaultCase_Throws(m, eff) == Finish(m, Err("Unhandled message type"), eff)

\* Lines 311-314: the default case of the switch
DefaultCase(m, eff) == Finish(m, Ok(Placeholder), eff)

\* Lines 222-316: the switch on message.type
Deterministic(m, eff) ==
  CASE m.type = <<"function", "execute">> ->
         IF ~hasFM THEN Finish(m, Err("Function Manager is not initialized"), eff)
         ELSE LET r == executeFunction(registry, m.name, m.x, NoContext)
              IN Finish(m, r.out, [eff EXCEPT !.runs = @ \o r.runs])
    [] m.type = <<"function", "execute", "withmodel">> ->
         IF ~hasFM \/ ~hasLLM
         THEN Finish(m, Err("Function Manager or LLM Manager is not initialized"), eff)
         ELSE IF Lookup(registry, m.name) = Undefined
         THEN Finish(m, Err("Function not found"), eff)
         ELSE LET r == executeFunction(registry, m.name, m.x, Ctx(TRUE, NoKey, FALSE, <<>>))
              IN IF r.k = "await_mm"
                 THEN Step("wh_wait", NoResult, <<>>,
                           [eff EXCEPT !.runs = @ \o r.runs, !.mm = @ + 1])
                 ELSE Finish(m, r.out, [eff EXCEPT !.runs = @ \o r.runs])
    [] m.type \in {<<"job", "schedule">>, <<"job", "status">>} ->
         IF ~hasJQ THEN Finish(m, Err("Job Queue Manager is not initialized"), eff)
         ELSE Step("det_wait", NoResult, <<>>, eff)
    [] m.type \in {<<"llm", "generate">>, <<"llm", "completion">>, <<"llm", "chat">>} ->
         IF ~hasLLM THEN Finish(m, Err("LLM Manager is not initialized"), eff)
         ELSE Step("det_wait", NoResult, <<>>, eff)
    [] OTHER -> DefaultCase(m, eff)

\* A dispatcher that surfaces the Master Model's error
AfterMasterModel_Surface(m, out, eff) == Finish(m, out, eff)

\* Lines 205-222: the Master Model's result is the response; when the call
\* raised, the event goes through the switch
AfterMasterModel(m, out, eff) ==
  IF out.ok THEN Finish(m, out, eff) ELSE Deterministic(m, eff)

\* Lines 201-204: the routing rule
UseMasterModel(m) == hasLLM /\ ~ReservedPrefix(m.type)

\* processMasterModelMessage before its sendMessage: the checks that raise
\* (this.masterModel is set by the constructor and never cleared)
MMPrecheck ==
  IF ~hasFM THEN Err("Function Manager not available for Master Model") ELSE NoResult

\* Lines 200-316 up to the first suspension
Route(m) ==
  IF UseMasterModel(m)
  THEN IF MMPrecheck # NoResult
       THEN AfterMasterModel(m, MMPrecheck, Effects(<<>>, <<>>, 0, 1))
       ELSE Step("mm_wait", NoResult, <<>>, Effects(<<>>, <<>>, 0, 1))
  ELSE Deterministic(m, NoEffects)

Apply(e, s) ==
  /\ pc' = [pc EXCEPT ![e] = s.pc]
  /\ result' = [result EXCEPT ![e] = s.out]
  /\ ackQueue' = [ackQueue EXCEPT ![e] = @ \o s.acks]
  /\ outgoingQueue' = [outgoingQueue EXCEPT ![e] = @ \o s.eff.outs]
  /\ emitted' = [emitted EXCEPT ![e] = @ \o s.emits]
  /\ handlerRuns' = [handlerRuns EXCEPT ![e] = @ \o s.eff.runs]
  /\ jobsAdded' = [jobsAdded EXCEPT ![e] = @ + s.eff.jobs]
  /\ mmCalls' = [mmCalls EXCEPT ![e] = @ + s.eff.mm]

----------------------------------------------------------------------------
(* Event Gateway consumer and the tasks it starts *)

Settle(e, calls) == brokerSettled' = [brokerSettled EXCEPT ![e] = @ \o calls]

\* A nack that hands the delivery back to the broker's queue
Nack_Requeue == [allUpTo |-> FALSE, requeue |-> TRUE]

\* channel.nack(msg, false, false)
Nack == [allUpTo |-> FALSE, requeue |-> FALSE]

\* MessagingManager.setupConsumer callback on a delivery that does not parse
DeliverMalformed(e) ==
  /\ pc[e] = "queued"
  /\ Settle(e, <<"nack">>)
  /\ pc' = [pc EXCEPT ![e] = IF Nack.requeue THEN "queued" ELSE "dropped"]
  /\ UNCHANGED <<registry, config, jobState, isConnected, msg, result, ackQueue, outgoingQueue, emitted,
                 handlerRuns, mmCalls, jobsAdded, mmResponse, mmOutcome, lastOp, creds, llmState>>

\* A consumer that takes the next delivery when the task of the last one ended
Deliver_Serial(e) ==
  /\ pc[e] = "queued"
  /\ \A f \in DOMAIN pc : pc[f] \notin {"mm_wait", "wh_wait", "det_wait"}
  /\ \E m \in Messages :
       /\ isConnected
       /\ Settle(e, <<"ack">>)
       /\ msg' = [msg EXCEPT ![e] = m]
       /\ Apply(e, Received(Route(m)))
       /\ mmOutcome' = [mmOutcome EXCEPT ![e] = IF UseMasterModel(m) THEN MMPrecheck
                                                ELSE @]
  /\ UNCHANGED <<registry, config, jobState, isConnected, mmResponse, lastOp, creds, llmState>>

\* The callback on a well-formed delivery; emit('message') runs
\* handleIncomingMessage up to its first suspension
Deliver(e) ==
  /\ pc[e] = "queued"
  /\ \E m \in Messages :
       IF isConnected
       THEN /\ Settle(e, <<"ack">>)
            /\ msg' = [msg EXCEPT ![e] = m]
            /\ Apply(e, Received(Route(m)))
            /\ mmOutcome' = [mmOutcome EXCEPT ![e] = IF UseMasterModel(m) THEN MMPrecheck
                                                     ELSE @]
       ELSE /\ Settle(e, <<"ack", "nack">>)
            /\ pc' = [pc EXCEPT ![e] = "dropped"]
            /\ UNCHANGED <<msg, result, ackQueue, outgoingQueue, emitted, handlerRuns, mmCalls,
                           jobsAdded, mmOutcome>>
  /\ UNCHANGED <<registry, config, jobState, isConnected, mmResponse, lastOp, creds, llmState>>

\* Types for which a schema is registered at some moment
SchemaTypes == {<<"function", "execute">>, <<"chat", "ask">>}

\* MessagingManager.registerIncomingSchema of the schema-validating gateway
RegisterIncomingSchema ==
  /\ \E t \in SchemaTypes : incomingSchemas' = incomingSchemas \cup {t}
  /\ UNCHANGED <<registry, hasFM, hasJQ, hasLLM, jobState, isConnected, msg, pc, result,
                 ackQueue, outgoingQueue, emitted, brokerSettled, handlerRuns, mmCalls,
                 jobsAdded, mmResponse, mmOutcome, lastOp, creds, llmState>>

\* The message the consumer built, whose payload the validator rejected
Rejected(m) ==
  [k |-> "msg", type |-> m.type, replyTo |-> m.replyTo, name |-> m.name, x |-> m.x,
   invalid |-> TRUE]

\* The rest of the callback for a message that passed: ack, receipt
\* acknowledgment, emit('message'); the catch block when the receipt raises
Accept(e, m) ==
  IF isConnected
  THEN /\ Settle(e, <<"ack">>)
       /\ msg' = [msg EXCEPT ![e] = m]
       /\ Apply(e, Received(Route(m)))
       /\ mmOutcome' = [mmOutcome EXCEPT ![e] = IF UseMasterModel(m) THEN MMPrecheck ELSE @]
  ELSE /\ Settle(e, <<"ack", "nack">>)
       /\ pc' = [pc EXCEPT ![e] = "dropped"]
       /\ UNCHANGED <<msg, result, ackQueue, outgoingQueue, emitted, handlerRuns, mmCalls,
                      jobsAdded, mmOutcome>>

\* A validating callback that goes on after reporting the invalid payload
GatewayDeliver_NoReturn(e) ==
  /\ pc[e] = "queued"
  /\ \E m \in Messages, valid \in BOOLEAN :
       IF m.type \in incomingSchemas /\ ~valid THEN Accept(e, Rejected(m)) ELSE Accept(e, m)
  /\ UNCHANGED <<registry, config, jobState, isConnected, mmResponse, lastOp, creds, llmState>>

\* The callback of the schema-validating gateway on a delivery that parses:
\* a payload that violates the schema registered for the type is reported with
\* an error acknowledgment (not awaited), acked to the broker and dropped
GatewayDeliver(e) ==
  /\ pc[e] = "queued"
  /\ \E m \in Messages, valid \in BOOLEAN :
       IF m.type \in incomingSchemas /\ ~valid
       THEN /\ Settle(e, <<"ack">>)
            /\ msg' = [msg EXCEPT ![e] = Rejected(m)]
            /\ pc' = [pc EXCEPT ![e] = "invalid"]
            /\ LET acks == IF isConnected THEN <<ErrorAck("Invalid message format")>>
                           ELSE <<>>
               IN /\ ackQueue' = [ackQueue EXCEPT ![e] = @ \o acks]
                  /\ emitted' = [emitted EXCEPT ![e] = @ \o Emits("receipt", acks)]
            /\ UNCHANGED <<result, outgoingQueue, handlerRuns, mmCalls, jobsAdded, mmOutcome>>
       ELSE Accept(e, m)
  /\ UNCHANGED <<registry, config, jobState, isConnected, mmResponse, lastOp, creds, llmState>>

\* The callback, of either gateway, on a delivery that parses and whose receipt
\* acknowledgment the channel does not take: sendAcknowledgment raises after
\* channel.ack, the catch block nacks, and its own acknowledgment raises too
DeliverUnpublished(e) ==
  /\ pc[e] = "queued"
  /\ Settle(e, <<"ack", "nack">>)
  /\ pc' = [pc EXCEPT ![e] = "dropped"]
  /\ UNCHANGED <<registry, config, jobState, isConnected, msg, result, ackQueue, outgoingQueue,
                 emitted, handlerRuns, mmCalls, jobsAdded, mmResponse, mmOutcome, lastOp,
                 creds, llmState>>

\* The Master Model's sendMessage returns (or raises): lines 207-218 of Agent.ts
MMRespond(e) ==
  /\ pc[e] = "mm_wait"
  /\ \E resp \in MMResponses :
       LET r == MMAct(registry, resp, "event", msg[e].type)
           eff == Effects(r.runs, r.outs, r.jobs, 0)
       IN /\ Apply(e, AfterMasterModel(msg[e], r.out, eff))
          /\ mmResponse' = [mmResponse EXCEPT ![e] = resp]
          /\ mmOutcome' = [mmOutcome EXCEPT ![e] = r.out]
  /\ UNCHANGED <<registry, config, jobState, isConnected, msg, brokerSettled, lastOp, creds, llmState>>

\* The processWebhook handler resumes after its own processMasterModelMessage call
WebhookRespond(e) ==
  /\ pc[e] = "wh_wait"
  /\ \E resp \in MMResponses :
       LET r == MMAct(registry, resp, "webhook", <<"webhook", "source", "event">>)
           eff == Effects(r.runs, r.outs, r.jobs, 0)
       IN Apply(e, Finish(msg[e],
                          IF r.out.ok THEN Ok(WebhookResult(r.out.val)) ELSE r.out,
                          eff))
  /\ UNCHANGED <<registry, config, jobState, isConnected, msg, brokerSettled, mmResponse,
                 mmOutcome, lastOp, creds, llmState>>

DetValue(type) ==
  CASE type = <<"job", "schedule">> -> JobId
    [] type = <<"job", "status">> -> JobStatusValue
    [] OTHER -> LLMResponse

\* A job store or provider call of the deterministic path returns or raises
DetReturn(e) ==
  /\ pc[e] = "det_wait"
  /\ \E ok \in BOOLEAN :
       Apply(e, Finish(msg[e],
                       IF ok THEN Ok(DetValue(msg[e].type)) ELSE Err("external failure"),
                       Effects(<<>>, <<>>,
                               IF ok /\ msg[e].type = <<"job", "schedule">> THEN 1 ELSE 0,
                               0)))
  /\ UNCHANGED <<registry, config, jobState, isConnected, msg, brokerSettled, mmResponse,
                 mmOutcome, lastOp, creds, llmState>>

----------------------------------------------------------------------------
(* Administrative calls *)

Report(op, name, report) == [op |-> op, name |-> name, report |-> report]
NoOp == Report("none", Absent, Absent)

AdminNames == CapNames \cup ProtoNames

\* A registerFunction that overwrites
registerFunction_Overwrite(reg, def) ==
  [reg |-> [reg EXCEPT ![def.name] = def], threw |-> FALSE]

\* FunctionManager.registerFunction: the registry it leaves and whether it threw
registerFunction(reg, def) ==
  IF Lookup(reg, def.name) # Undefined
  THEN [reg |-> reg, threw |-> TRUE]
  ELSE [reg |-> [reg EXCEPT ![def.name] = def], threw |-> FALSE]

\* FunctionManager.unregisterFunction
unregisterFunction(reg, name) ==
  IF Lookup(reg, name) # Undefined
  THEN [reg |-> [reg EXCEPT ![name] = Undefined], found |-> TRUE]
  ELSE [reg |-> reg, found |-> FALSE]

events == <<msg, pc, result, ackQueue, outgoingQueue, emitted, brokerSettled, handlerRuns,
            mmCalls, jobsAdded, mmResponse, mmOutcome>>

\* A direct registerFunction call (startup code, a module's register export)
RegisterFunction ==
  /\ hasFM
  /\ \E n \in AdminNames, b \in Bodies :
       LET r == registerFunction(registry, Def(n, b)) IN
       /\ registry' = r.reg
       /\ lastOp' = Report("register", n,
                           IF r.threw THEN "error: already registered" ELSE "success")
  /\ UNCHANGED <<config, jobState, isConnected, events, creds, llmState>>

\* socket 'function:save' handler
FunctionSave ==
  /\ \E n \in AdminNames, b \in Bodies :
       IF ~hasFM
       THEN /\ lastOp' = Report("save", n, "error: not initialized")
            /\ UNCHANGED registry
       ELSE LET u == unregisterFunction(registry, n)
                r == registerFunction(u.reg, Def(n, b)) IN
            /\ registry' = r.reg
            /\ lastOp' = Report("save", n,
                                IF r.threw THEN "error: already registered" ELSE "success")
  /\ UNCHANGED <<config, jobState, isConnected, events, creds, llmState>>

\* socket 'function:delete' handler
FunctionDelete ==
  /\ \E n \in AdminNames :
       IF ~hasFM
       THEN /\ lastOp' = Report("delete", n, "error: not initialized")
            /\ UNCHANGED registry
       ELSE LET u == unregisterFunction(registry, n) IN
            /\ registry' = u.reg
            /\ lastOp' = Report("delete", n,
                                IF u.found THEN "success" ELSE "error: not found")
  /\ UNCHANGED <<config, jobState, isConnected, events, creds, llmState>>

\* loadFunctionsFromDirectory: one imported module registers its definition;
\* a failure is caught and logged
LoadFunction ==
  /\ hasFM
  /\ \E n \in CapNames :
       LET r == registerFunction(registry, Def(n, IF n = "double" THEN "double" ELSE "webhook")) IN
       /\ registry' = r.reg
       /\ lastOp' = Report("load", n, IF r.threw THEN "logged: already registered" ELSE "success")
  /\ UNCHANGED <<config, jobState, isConnected, events, creds, llmState>>

----------------------------------------------------------------------------
(* Direct calls of the Capability Registry *)

CallerKey == Key(-1)      \* an apiKey that the caller put in the context
InvokeNames == CredCapNames \cup {"double"}

Invocation(name, ctx, r) == [name |-> name, ctx |-> ctx, out |-> r.out, runs |-> r.runs]

\* FunctionManager.executeFunction(name, params, context) called directly
Invoke ==
  /\ Len(invocations) < MaxCalls
  /\ \E n \in InvokeNames, key \in {NoKey, CallerKey} :
       LET ctx == Ctx(FALSE, key, FALSE, <<>>)
           r == executeFunction(registry, n, 1, ctx)
       IN invocations' = Append(invocations, Invocation(n, ctx, r))
  /\ UNCHANGED <<registry, config, jobState, isConnected, events, lastOp, apiKeys, llmState>>

----------------------------------------------------------------------------
(* Model Registry: LLMManager's configuration state *)

\* LLMConfig; a field that is not present is Absent
Config(provider, apiKeyName, systemPrompt, temperature) ==
  [provider |-> provider, apiKeyName |-> apiKeyName, systemPrompt |-> systemPrompt,
   temperature |-> temperature]
ConfigFields == {"provider", "apiKeyName", "systemPrompt", "temperature"}
NoOptions == Config(Absent, Absent, Absent, Absent)

\* { ...a, ...b }
Merge(a, b) == [f \in ConfigFields |-> IF b[f] # Absent THEN b[f] ELSE a[f]]

ModelIds == {"masterModel", "textAnalysisModel", "constructor"}
EmptyModels == [id \in ModelIds |-> Undefined]

\* this.modelRegistry[modelId] on a plain object
ModelLookup(reg, id) ==
  IF reg[id] # Undefined THEN reg[id]
  ELSE IF id = "constructor" THEN ProtoFn
  ELSE Undefined

\* What { ...entry } copies of a registry lookup: an inherited function has no
\* own enumerable property
Spread(entry) == IF entry = ProtoFn THEN NoOptions ELSE entry

registerModel(reg, id, c) == [reg EXCEPT ![id] = c]

getModelConfig(reg, id) == ModelLookup(reg, id)

\* An unregisterModel without the guard on the Master Model
unregisterModel_NoGuard(reg, id) ==
  IF ModelLookup(reg, id) # Undefined
  THEN [reg |-> [reg EXCEPT ![id] = Undefined], threw |-> FALSE, found |-> TRUE]
  ELSE [reg |-> reg, threw |-> FALSE, found |-> FALSE]

\* LLMManager.unregisterModel
unregisterModel(reg, id) ==
  IF id = "masterModel" THEN [reg |-> reg, threw |-> TRUE, found |-> FALSE]
  ELSE IF ModelLookup(reg, id) # Undefined
  THEN [reg |-> [reg EXCEPT ![id] = Undefined], threw |-> FALSE, found |-> TRUE]
  ELSE [reg |-> reg, threw |-> FALSE, found |-> FALSE]

\* LLMManager.updateMasterModel (this.masterModel is set since construction)
updateMasterModel(mm, c) == Merge(IF mm = Undefined THEN llmConfig ELSE mm, c)

LLMKeyNames == {"openai", "anthropic"}

\* LLMManager.getApiKey(apiKeyName) with the default index 0
llmGetApiKey(keys, apiKeyName) ==
  LET pool == IF apiKeyName \in LLMKeyNames THEN keys[apiKeyName] ELSE <<>> IN
  IF Len(pool) > 0 THEN pool[1] ELSE NoKey

\* LLMManager.initializeClients: the clients held afterwards, or a throw
initializeClients(keys, cfg, cl) ==
  IF Falsy(llmGetApiKey(keys, cfg.apiKeyName)) THEN [clients |-> cl, threw |-> "No API key found"]
  ELSE CASE cfg.provider = "openai" -> [clients |-> cl \cup {"openai"}, threw |-> Absent]
         [] cfg.provider = "anthropic" -> [clients |-> cl \cup {"anthropic"}, threw |-> Absent]
         [] cfg.provider = "google" -> [clients |-> cl, threw |-> Absent]
         [] OTHER -> [clients |-> cl, threw |-> "Unsupported LLM provider"]

\* LLMManager.updateConfig: the config is replaced before the clients are
\* initialized again
updateConfig(keys, cfg, cl, c) ==
  LET new == Merge(cfg, c) IN
  IF c.provider # Absent \/ c.apiKeyName # Absent
  THEN LET r == initializeClients(keys, new, cl)
       IN [config |-> new, clients |-> r.clients, threw |-> r.threw]
  ELSE [config |-> new, clients |-> cl, threw |-> Absent]

\* The LLMManager that Agent.initializeLLM builds from the agent's configuration:
\* the constructor, the registration of config.llm.models, and the defaulting of
\* the Master Model when getMasterModelConfig() returns nothing
Manager(cfg, reg, mm, cl) == [config |-> cfg, registry |-> reg, masterModel |-> mm, clients |-> cl]
GeneratedPrompt == "generated"
initializeLLM(keys, agentcfg) ==
  LET c == initializeClients(keys, agentcfg.config, {})
      built == Manager(agentcfg.config, agentcfg.models, agentcfg.config, c.clients)
  IN IF c.threw # Absent THEN [threw |-> c.threw, mgr |-> built]
     ELSE IF built.masterModel = Undefined
     THEN LET d == Merge(agentcfg.config, Config(Absent, Absent, GeneratedPrompt, Absent))
          IN [threw |-> Absent,
              mgr |-> Manager(built.config, registerModel(built.registry, "masterModel", d),
                              d, built.clients)]
     ELSE [threw |-> Absent, mgr |-> built]

\* Configurations that callers register and partial configurations they pass
AnalysisConfig == Config("openai", "openai", "analysis", "t1")
ClaudeConfig == Config("anthropic", "anthropic", Absent, Absent)
RegConfigs == {AnalysisConfig, ClaudeConfig}
Partials ==
  {Config(Absent, Absent, "custom", Absent), Config(Absent, Absent, Absent, "t2"),
   Config("anthropic", "anthropic", Absent, Absent), Config("mistral", Absent, Absent, Absent)}

llmFrame == <<registry, config, jobState, isConnected, events, creds, agentLLM, llmApiKeys>>

\* One more call of the interface of the LLMManager that the agent holds;
\* llmCall is the latest call, with what it was given and what it returned
LLMCall ==
  /\ hasLLM
  /\ llmSteps < MaxCalls
  /\ llmSteps' = llmSteps + 1

\* Agent.registerLLMModel / LLMManager.registerModel
RegisterModel ==
  /\ LLMCall
  /\ \E id \in ModelIds, c \in RegConfigs :
       /\ modelRegistry' = registerModel(modelRegistry, id, c)
       /\ lastOp' = Report("registerModel", id, "success")
       /\ llmCall' = [op |-> "registerModel", id |-> id, config |-> c]
  /\ UNCHANGED <<llmFrame, llmConfig, masterModel, clients>>

\* LLMManager.unregisterModel called directly
UnregisterModel ==
  /\ LLMCall
  /\ \E id \in ModelIds :
       LET r == unregisterModel(modelRegistry, id) IN
       /\ modelRegistry' = r.reg
       /\ lastOp' = Report("unregisterModel", id,
                           IF r.threw THEN "error: cannot unregister the Master Model"
                           ELSE IF r.found THEN "true" ELSE "false")
  /\ llmCall' = [op |-> "unregisterModel"]
  /\ UNCHANGED <<llmFrame, llmConfig, masterModel, clients>>

\* socket 'model:delete' handler
ModelDelete ==
  /\ LLMCall
  /\ \E id \in ModelIds \cup {"default"} :
       IF id \in {"default", "masterModel"}
       THEN /\ lastOp' = Report("model:delete", id, "error: cannot delete")
            /\ UNCHANGED modelRegistry
       ELSE LET r == unregisterModel(modelRegistry, id) IN
            /\ modelRegistry' = r.reg
            /\ lastOp' = Report("model:delete", id,
                                IF r.found THEN "success" ELSE "error: not found")
  /\ llmCall' = [op |-> "model:delete"]
  /\ UNCHANGED <<llmFrame, llmConfig, masterModel, clients>>

\* socket 'model:save' handler
ModelSave ==
  /\ LLMCall
  /\ \E id \in ModelIds \cup {"default"}, c \in RegConfigs :
       CASE id = "masterModel" ->
              /\ lastOp' = Report("model:save", id, "error: cannot modify the Master Model")
              /\ UNCHANGED <<modelRegistry, llmConfig, clients>>
         [] id = "default" ->
              LET r == updateConfig(llmApiKeys, llmConfig, clients, c) IN
              /\ llmConfig' = r.config
              /\ clients' = r.clients
              /\ lastOp' = Report("model:save", id,
                                  IF r.threw # Absent THEN "error" ELSE "success")
              /\ UNCHANGED modelRegistry
         [] OTHER ->
              /\ modelRegistry' = registerModel(modelRegistry, id, c)
              /\ lastOp' = Report("model:save", id, "success")
              /\ UNCHANGED <<llmConfig, clients>>
  /\ llmCall' = [op |-> "model:save"]
  /\ UNCHANGED <<llmFrame, masterModel>>

\* Agent.updateMasterModel / LLMManager.updateMasterModel
UpdateMasterModel ==
  /\ LLMCall
  /\ \E c \in Partials :
       /\ masterModel' = updateMasterModel(masterModel, c)
       /\ lastOp' = Report("updateMasterModel", "masterModel", "success")
  /\ llmCall' = [op |-> "updateMasterModel"]
  /\ UNCHANGED <<llmFrame, llmConfig, modelRegistry, clients>>

\* LLMManager.updateConfig
UpdateConfig ==
  /\ LLMCall
  /\ \E c \in Partials :
       LET r == updateConfig(llmApiKeys, llmConfig, clients, c) IN
       /\ llmConfig' = r.config
       /\ clients' = r.clients
       /\ lastOp' = Report("updateConfig", "default",
                           IF r.threw # Absent THEN "error" ELSE "success")
  /\ llmCall' = [op |-> "updateConfig"]
  /\ UNCHANGED <<llmFrame, modelRegistry, masterModel>>

\* Agent.initialize run again: initializeLLM replaces the LLMManager
InitializeLLM ==
  /\ LLMCall
  /\ LET r == initializeLLM(llmApiKeys, agentLLM) IN
     IF r.threw # Absent
     THEN /\ lastOp' = Report("initializeLLM", "default", "error")
          /\ UNCHANGED <<llmConfig, modelRegistry, masterModel, clients>>
     ELSE /\ llmConfig' = r.mgr.config
          /\ modelRegistry' = r.mgr.registry
          /\ masterModel' = r.mgr.masterModel
          /\ clients' = r.mgr.clients
          /\ lastOp' = Report("initializeLLM", "default", "success")
  /\ llmCall' = [op |-> "initializeLLM"]
  /\ UNCHANGED llmFrame

NoCall == [op |-> "none"]

\* LLMManager.getModelConfig, and what it returned
GetModelConfig ==
  /\ LLMCall
  /\ \E id \in ModelIds :
       llmCall' = [op |-> "getModelConfig", id |-> id, out |-> getModelConfig(modelRegistry, id)]
  /\ UNCHANGED <<llmFrame, lastOp, llmConfig, modelRegistry, masterModel, clients>>

----------------------------------------------------------------------------
(* Deferred work: JobQueueManager over its queue *)

\* Ids: the one addJob builds (name, '-', a fresh uuid) and the one the queue
\* gives a job that is added without a jobId option (its counter)
Handle(n) == [k |-> "handle", n |-> n]
QueueId(n) == [k |-> "queue", n |-> n]
Null == [k |-> "null"]

StoredJob(handle, state, removeOnComplete) ==
  [k |-> "job", id |-> handle, state |-> state, removeOnComplete |-> removeOnComplete]
NoJobs ==
  /\ jobStore = [n \in 1..MaxJobs |-> Undefined]
  /\ jobCounter = 0
  /\ jobHandles = {}
  /\ jobCall = [op |-> "none"]

\* queue.getJob(jobId): the job that the queue holds under that id
getJob(store, id) ==
  IF id.k = "queue" /\ id.n \in DOMAIN store THEN store[id.n] ELSE Undefined

\* JobQueueManager.addJob: the handle goes into the job's data, jobOptions has
\* no jobId, and the handle is returned
addJob(store, counter, removeOnComplete) ==
  [store |-> [store EXCEPT ![counter + 1] =
                 StoredJob(Handle(counter + 1), "waiting", removeOnComplete)],
   out |-> Handle(counter + 1)]

JobStatus(state) == [k |-> "status", state |-> state]

\* JobQueueManager.getJobStatus
getJobStatus(store, id) ==
  LET job == getJob(store, id) IN
  IF job = Undefined THEN Null
  ELSE IF job.state \in {"completed", "failed", "delayed", "active", "waiting", "paused"}
  THEN JobStatus(job.state)
  ELSE Null

\* JobQueueManager.getJobResult
getJobResult(store, id) ==
  LET job == getJob(store, id) IN
  IF job = Undefined THEN Err("Job not found")
  ELSE Ok([k |-> "returnvalue", of |-> job.id, set |-> job.state = "completed"])

\* Ids that callers ask about: handles and queue ids, issued or not
QueryIds == {Handle(n) : n \in 0..MaxJobs} \cup {QueueId(n) : n \in 0..MaxJobs}

jobFrame == <<registry, config, isConnected, events, lastOp, creds, llmState>>

AddJob ==
  /\ hasJQ
  /\ jobCounter < MaxJobs
  /\ \E removeOnComplete \in BOOLEAN :
       LET r == addJob(jobStore, jobCounter, removeOnComplete) IN
       /\ jobStore' = r.store
       /\ jobHandles' = jobHandles \cup {r.out}
       /\ jobCall' = [op |-> "addJob", out |-> r.out]
  /\ jobCounter' = jobCounter + 1
  /\ UNCHANGED jobFrame

\* The worker takes a waiting job
WorkerTake ==
  /\ \E n \in 1..MaxJobs :
       /\ jobStore[n] # Undefined /\ jobStore[n].state = "waiting"
       /\ jobStore' = [jobStore EXCEPT ![n].state = "active"]
  /\ UNCHANGED <<jobFrame, jobCounter, jobHandles, jobCall>>

\* processJob returns or raises: a completed job is removed when
\* removeOnComplete is set, a failed job is kept
WorkerDone ==
  /\ \E n \in 1..MaxJobs, ok \in BOOLEAN :
       /\ jobStore[n] # Undefined /\ jobStore[n].state = "active"
       /\ jobStore' = IF ok
                      THEN IF jobStore[n].removeOnComplete
                           THEN [jobStore EXCEPT ![n] = Undefined]
                           ELSE [jobStore EXCEPT ![n].state = "completed"]
                      ELSE [jobStore EXCEPT ![n].state = "failed"]
  /\ UNCHANGED <<jobFrame, jobCounter, jobHandles, jobCall>>

GetJobStatus ==
  /\ hasJQ
  /\ \E id \in QueryIds :
       jobCall' = [op |-> "getJobStatus", id |-> id, out |-> getJobStatus(jobStore, id)]
  /\ UNCHANGED <<jobFrame, jobStore, jobCounter, jobHandles>>

GetJobResult ==
  /\ hasJQ
  /\ \E id \in QueryIds :
       jobCall' = [op |-> "getJobResult", id |-> id, out |-> getJobResult(jobStore, id)]
  /\ UNCHANGED <<jobFrame, jobStore, jobCounter, jobHandles>>

----------------------------------------------------------------------------
(* Specification *)

\* The configuration of index.ts (lines 47-54), the openai key set, no extra model
BaseConfig == Config("openai", "openai", "base", "t1")
Constructed(keys, agentcfg) ==
  LET r == initializeLLM(keys, agentcfg) IN
  /\ r.threw = Absent
  /\ agentLLM = agentcfg
  /\ llmApiKeys = keys
  /\ llmConfig = r.mgr.config
  /\ modelRegistry = r.mgr.registry
  /\ masterModel = r.mgr.masterModel
  /\ clients = r.mgr.clients
  /\ llmCall = NoCall
  /\ llmSteps = 0

DefaultLLM ==
  Constructed([a \in LLMKeyNames |-> IF a = "openai" THEN <<Key(1)>> ELSE <<>>],
              [config |-> BaseConfig, models |-> EmptyModels])

DoubleDef == Def("double", "double")
WebhookDef == Def("processWebhook", "webhook")

Init ==
  /\ hasFM \in BOOLEAN
  /\ hasJQ \in BOOLEAN
  /\ hasLLM \in BOOLEAN
  /\ registry \in {[EmptyRegistry EXCEPT !["double"] = d, !["processWebhook"] = w] :
                     d \in {Undefined, DoubleDef}, w \in {Undefined, WebhookDef}}
  /\ (~hasFM => registry = EmptyRegistry)
  /\ isConnected = TRUE
  /\ incomingSchemas = {}
  /\ msg = [e \in Events |-> NoMsg]
  /\ pc = [e \in Events |-> "queued"]
  /\ result = [e \in Events |-> NoResult]
  /\ ackQueue = [e \in Events |-> <<>>]
  /\ outgoingQueue = [e \in Events |-> <<>>]
  /\ emitted = [e \in Events |-> <<>>]
  /\ brokerSettled = [e \in Events |-> <<>>]
  /\ handlerRuns = [e \in Events |-> <<>>]
  /\ mmCalls = [e \in Events |-> 0]
  /\ jobsAdded = [e \in Events |-> 0]
  /\ mmResponse = [e \in Events |-> NoResult]
  /\ mmOutcome = [e \in Events |-> NoResult]
  /\ lastOp = NoOp
  /\ apiKeys = [a \in PoolNames |-> <<>>]
  /\ invocations = <<>>
  /\ DefaultLLM
  /\ NoJobs

Next ==
  \/ \E e \in Events : DeliverMalformed(e)
  \/ \E e \in Events : Deliver(e)
  \/ \E e \in Events : MMRespond(e)
  \/ \E e \in Events : WebhookRespond(e)
  \/ \E e \in Events : DetReturn(e)

\* The running agent: events are dispatched against the registry as loaded
Spec == Init /\ [][Next]_vars

\* MessagingManager.close, as Agent.shutdown calls it: the channel and the
\* connection are closed, so the broker keeps what it has not delivered, and
\* isConnected is cleared; the tasks already started go on
Close ==
  /\ isConnected
  /\ isConnected' = FALSE
  /\ pc' = [e \in DOMAIN pc |-> IF pc[e] = "queued" THEN "undelivered" ELSE pc[e]]
  /\ UNCHANGED <<registry, config, jobState, msg, result, ackQueue, outgoingQueue, emitted,
                 brokerSettled, handlerRuns, mmCalls, jobsAdded, mmResponse, mmOutcome,
                 lastOp, creds, llmState>>

NextShutdown == Next \/ Close

\* The running agent, shut down while events are in flight
SpecShutdown == Init /\ [][NextShutdown]_vars

\* Deliveries the broker makes while earlier ones are still being processed:
\* two at least
Concurrent == 1..(IF MaxEvents < 2 THEN 2 ELSE MaxEvents)

\* Agent.initialize with every component and the shipped capabilities
InitConcurrent ==
  /\ hasFM = TRUE /\ hasJQ = TRUE /\ hasLLM = TRUE
  /\ registry = [EmptyRegistry EXCEPT !["double"] = DoubleDef,
                                      !["processWebhook"] = WebhookDef]
  /\ isConnected = TRUE
  /\ incomingSchemas = {}
  /\ msg = [e \in Concurrent |-> NoMsg]
  /\ pc = [e \in Concurrent |-> "queued"]
  /\ result = [e \in Concurrent |-> NoResult]
  /\ ackQueue = [e \in Concurrent |-> <<>>]
  /\ outgoingQueue = [e \in Concurrent |-> <<>>]
  /\ emitted = [e \in Concurrent |-> <<>>]
  /\ brokerSettled = [e \in Concurrent |-> <<>>]
  /\ handlerRuns = [e \in Concurrent |-> <<>>]
  /\ mmCalls = [e \in Concurrent |-> 0]
  /\ jobsAdded = [e \in Concurrent |-> 0]
  /\ mmResponse = [e \in Concurrent |-> NoResult]
  /\ mmOutcome = [e \in Concurrent |-> NoResult]
  /\ lastOp = NoOp
  /\ apiKeys = [a \in PoolNames |-> <<>>]
  /\ invocations = <<>>
  /\ DefaultLLM
  /\ NoJobs

NextConcurrent ==
  \/ \E e \in Concurrent : DeliverMalformed(e)
  \/ \E e \in Concurrent : Deliver(e)
  \/ \E e \in Concurrent : MMRespond(e)
  \/ \E e \in Concurrent : WebhookRespond(e)
  \/ \E e \in Concurrent : DetReturn(e)

\* The running agent with several events in flight
SpecConcurrent == InitConcurrent /\ [][NextConcurrent]_vars

\* Agent.initialize has resolved with a Function Manager, and the imports
\* that loadFunctionsFromDirectory started and did not wait for complete in
\* any order with the events
InitStartup == Init /\ hasFM = TRUE

NextStartup == Next \/ LoadFunction

SpecStartup == InitStartup /\ [][NextStartup]_vars

NextGateway ==
  \/ RegisterIncomingSchema
  \/ \E e \in Events : DeliverMalformed(e)
  \/ \E e \in Events : GatewayDeliver(e)
  \/ \E e \in Events : MMRespond(e)
  \/ \E e \in Events : WebhookRespond(e)
  \/ \E e \in Events : DetReturn(e)

\* The agent behind the schema-validating gateway
SpecGateway == Init /\ [][NextGateway]_vars

NextUnpublished == NextGateway \/ \E e \in Events : DeliverUnpublished(e)

\* The same, where the channel may refuse a receipt acknowledgment
SpecUnpublished == Init /\ [][NextUnpublished]_vars

NextAdmin ==
  \/ RegisterFunction
  \/ FunctionSave
  \/ FunctionDelete
  \/ LoadFunction

\* The administrative surface acting on the Capability Registry
SpecAdmin == Init /\ [][NextAdmin]_vars

NoEvents ==
  /\ isConnected = TRUE
  /\ incomingSchemas = {}
  /\ msg = [e \in Events |-> NoMsg]
  /\ pc = [e \in Events |-> "queued"]
  /\ result = [e \in Events |-> NoResult]
  /\ ackQueue = [e \in Events |-> <<>>]
  /\ outgoingQueue = [e \in Events |-> <<>>]
  /\ emitted = [e \in Events |-> <<>>]
  /\ brokerSettled = [e \in Events |-> <<>>]
  /\ handlerRuns = [e \in Events |-> <<>>]
  /\ mmCalls = [e \in Events |-> 0]
  /\ jobsAdded = [e \in Events |-> 0]
  /\ mmResponse = [e \in Events |-> NoResult]
  /\ mmOutcome = [e \in Events |-> NoResult]
  /\ lastOp = NoOp
  /\ NoJobs

\* A Function Manager with the credential pools loaded from the environment
\* and capabilities that declare a credential name
InitInvoke ==
  /\ hasFM = TRUE /\ hasJQ = FALSE /\ hasLLM = FALSE
  /\ registry \in
       {[EmptyRegistry EXCEPT !["double"] = DoubleDef,
                              !["getWeather"] = DefWithKey("getWeather", "weather", a),
                              !["analyzeSentiment"] = s] :
          a \in {"weather", "Weather", "constructor"},
          s \in {Undefined} \cup {DefWithKey("analyzeSentiment", "sentiment", b) :
                                     b \in {"sentiment", "Weather"}}}
  /\ apiKeys \in [PoolNames -> Pools]
  /\ invocations = <<>>
  /\ DefaultLLM
  /\ NoEvents

NextInvoke == Invoke

\* Capabilities invoked through FunctionManager.executeFunction
SpecInvoke == InitInvoke /\ [][NextInvoke]_vars

\* An agent with its Job Queue Manager, no event in flight
InitJobs ==
  /\ Init
  /\ hasFM /\ hasJQ /\ hasLLM
  /\ registry["double"] = DoubleDef /\ registry["processWebhook"] = WebhookDef

NextJobs ==
  \/ AddJob
  \/ WorkerTake
  \/ WorkerDone
  \/ GetJobStatus
  \/ GetJobResult

\* The Job Queue Manager under its callers and its worker
SpecJobs == InitJobs /\ [][NextJobs]_vars

----------------------------------------------------------------------------
(* Provider Adapter: LLMManager.sendMessage *)

\* LLMMessage: a role and a content. A content is a text, or the instruction
\* message, which describes the four directives and lists capability names
Turn(role, content) == [role |-> role, content |-> content]
Text(t) == [text |-> t, directives |-> FALSE, names |-> {}]
InstructionMessage(names) == [text |-> "instruction", directives |-> TRUE, names |-> names]
ContextMessage == Text("context")

SendIds == ModelIds \cup {Absent}

\* Lines 221-230: the config of the call
EffectiveConfig(reg, cfg, options, modelId) ==
  IF modelId # Absent /\ ModelLookup(reg, modelId) # Undefined
  THEN Merge(Spread(ModelLookup(reg, modelId)), options)
  ELSE Merge(cfg, options)

\* sendAnthropicMessage, lines 332-346: every turn becomes a user or assistant
\* turn, and the config's systemPrompt is put in front as a user turn
AnthropicRole(role) == IF role = "assistant" THEN "assistant" ELSE "user"
AnthropicTurns(messages, cfg) ==
  LET converted == [i \in 1..Len(messages) |->
                      Turn(AnthropicRole(messages[i].role), messages[i].content)]
  IN IF cfg.systemPrompt # Absent
     THEN <<Turn("user", Text(cfg.systemPrompt))>> \o converted
     ELSE converted

Sent(adapter, turns) == [adapter |-> adapter, turns |-> turns, threw |-> Absent]
NotSent(adapter, error) == [adapter |-> adapter, turns |-> <<>>, threw |-> error]

\* Lines 232-248 and the head of each adapter: the adapter entered, and the
\* turns it requests of the provider unless it raises first
Dispatch(cl, cfg, messages) ==
  CASE cfg.provider = "openai" ->
         IF "openai" \in cl THEN Sent("openai", messages)
         ELSE NotSent("openai", "OpenAI client not initialized")
    [] cfg.provider = "anthropic" ->
         IF "anthropic" \in cl THEN Sent("anthropic", AnthropicTurns(messages, cfg))
         ELSE NotSent("anthropic", "Anthropic client not initialized")
    [] cfg.provider = "google" -> NotSent(Absent, "Google AI integration not yet implemented")
    [] OTHER -> NotSent(Absent, "Unsupported LLM provider")

\* Line 552: this.masterModel.systemPrompt || instructionMessage
MasterPrompt(mm, reg, names) ==
  IF mm.systemPrompt # Absent THEN Text(mm.systemPrompt) ELSE InstructionMessage(names)

\* Lines 529-558: the turns of a decision request
DecisionRequest ==
  << Turn("system", MasterPrompt(masterModel, modelRegistry, listFunctions(registry))),
     Turn("user", ContextMessage) >>

\* Responses of the Master Model, one of each kind
SomeResponses ==
  {[k |-> "throw"], [k |-> "toolcall", name |-> "double", x |-> 1, c |-> TextContent],
   [k |-> "content", c |-> TextContent], [k |-> "content", c |-> NullContent],
   [k |-> "content", c |-> Directive("none", Absent, NoParams, Absent, Absent)]}

\* LLMManager.processMasterModelMessage called on the manager (by the
\* dispatcher, by a handler): the request, the config and the adapter of its
\* sendMessage, and what the call returned or raised
ProcessMasterModelMessage ==
  /\ LLMCall
  /\ IF masterModel = Undefined \/ ~hasFM
     THEN llmCall' = [op |-> "processMasterModelMessage", request |-> <<>>,
                      out |-> Err("not configured")]
     ELSE LET cfg == EffectiveConfig(modelRegistry, llmConfig, NoOptions, "masterModel")
              d == Dispatch(clients, cfg, DecisionRequest)
          IN \E resp \in SomeResponses :
               llmCall' = [op |-> "processMasterModelMessage", request |-> DecisionRequest,
                           config |-> cfg, sent |-> d,
                           out |-> IF d.threw # Absent THEN Err(d.threw)
                                   ELSE MMAct(registry, resp, "event", <<"chat", "ask">>).out]
  /\ UNCHANGED <<llmFrame, lastOp, llmConfig, modelRegistry, masterModel, clients>>

AgentModels ==
  {EmptyModels,
   [EmptyModels EXCEPT !["masterModel"] = Config("openai", "openai", "mmConfigured", "t2")]}
BaseConfigs ==
  {Config(p, p, sp, "t1") : p \in {"openai", "anthropic"}, sp \in {Absent, "base"}}

\* An agent whose LLMManager was built by Agent.initialize, with the
\* capabilities loaded
InitModels ==
  /\ hasFM = TRUE /\ hasJQ = TRUE /\ hasLLM = TRUE
  /\ registry \in {[EmptyRegistry EXCEPT !["double"] = DoubleDef, !["processWebhook"] = w] :
                     w \in {Undefined, WebhookDef}}
  /\ apiKeys = [a \in PoolNames |-> <<>>]
  /\ invocations = <<>>
  /\ NoEvents
  /\ \E keys \in [LLMKeyNames -> {<<>>, <<Key(1)>>}], c \in BaseConfigs, ms \in AgentModels :
       Constructed(keys, [config |-> c, models |-> ms])

NextModels ==
  \/ RegisterModel
  \/ UnregisterModel
  \/ ModelDelete
  \/ ModelSave
  \/ UpdateMasterModel
  \/ UpdateConfig
  \/ InitializeLLM
  \/ GetModelConfig
  \/ ProcessMasterModelMessage

\* The Model Registry under its callers
SpecModels == InitModels /\ [][NextModels]_vars

\* Arguments of sendMessage and chat
SendOptions ==
  {NoOptions, Config(Absent, Absent, "override", Absent),
   Config("anthropic", "anthropic", Absent, Absent), Config("google", "google", Absent, Absent)}
UserTurn == Turn("user", Text("hello"))
AssistantTurn == Turn("assistant", Text("reply"))
SendTurns == {<<UserTurn>>, <<Turn("system", Text("sys")), UserTurn>>}

\* Conversation histories: a system turn, if any, is the first one
Histories ==
  {<<>>, <<UserTurn, AssistantTurn>>,
   <<Turn("system", Text("sys")), UserTurn, AssistantTurn>>}

\* LLMManager.sendMessage: the config of the call, the adapter entered and the
\* turns requested of the provider
SendMessage ==
  /\ LLMCall
  /\ \E messages \in SendTurns, options \in SendOptions, modelId \in SendIds :
       LET cfg == EffectiveConfig(modelRegistry, llmConfig, options, modelId) IN
       llmCall' = [op |-> "sendMessage", messages |-> messages, options |-> options,
                   modelId |-> modelId, config |-> cfg,
                   sent |-> Dispatch(clients, cfg, messages)]
  /\ UNCHANGED <<llmFrame, lastOp, llmConfig, modelRegistry, masterModel, clients>>

\* Lines 463-490 of chat: the turns handed to sendMessage
ChatMessages(history, cfg) ==
  LET withPrompt ==
        IF (Len(history) = 0 \/ ~\E i \in 1..Len(history) : history[i].role = "system")
           /\ cfg.systemPrompt # Absent
        THEN <<Turn("system", Text(cfg.systemPrompt))>> \o history
        ELSE history
  IN withPrompt \o <<UserTurn>>

\* LLMManager.chat: the turns built, the request of the adapter, and the
\* updatedHistory returned unless sendMessage raised
Chat ==
  /\ LLMCall
  /\ \E history \in Histories, options \in SendOptions, modelId \in SendIds :
       LET cfg == EffectiveConfig(modelRegistry, llmConfig, options, modelId)
           messages == ChatMessages(history, cfg)
           d == Dispatch(clients, EffectiveConfig(modelRegistry, llmConfig, options, modelId),
                         messages)
       IN llmCall' = [op |-> "chat", history |-> history, options |-> options,
                      modelId |-> modelId, config |-> cfg, sent |-> d,
                      out |-> IF d.threw # Absent THEN Err(d.threw)
                              ELSE Ok(messages \o <<AssistantTurn>>)]
  /\ UNCHANGED <<llmFrame, lastOp, llmConfig, modelRegistry, masterModel, clients>>

\* An agent whose LLMManager was built by Agent.initialize
InitSend ==
  /\ InitModels
  /\ registry["processWebhook"] = Undefined

NextSend ==
  \/ SendMessage
  \/ Chat
  \/ RegisterModel
  \/ UpdateConfig

\* sendMessage and chat under changes of the registry and of the default config
SpecSend == InitSend /\ [][NextSend]_vars

----------------------------------------------------------------------------
(* AgentManager: the orchestrator that asks its agent LLM about every event *)

\* A response of agentLLM.sendMessage: its content and its functionCalls.
\* A content is empty, is not JSON, or is a JSON object with the fields
\* functionCalls and scheduleJob
AMCall(name, x) == [name |-> name, x |-> x]
EmptyContent == [j |-> "empty"]
AMPlan(calls, job) == [j |-> "obj", functionCalls |-> calls, scheduleJob |-> job]
AMResponse(content, calls) == [k |-> "am", content |-> content, calls |-> calls]
AMResponses ==
  {[k |-> "throw"], AMResponse(TextContent, <<>>), AMResponse(EmptyContent, <<>>),
   AMResponse(TextContent, <<AMCall("double", 1)>>),
   AMResponse(AMPlan(<<>>, FALSE), <<>>), AMResponse(AMPlan(<<>>, TRUE), <<>>),
   AMResponse(AMPlan(<<AMCall("double", 1), AMCall("double", MaxX)>>, FALSE), <<>>)}
  \cup {AMResponse(EmptyContent, <<AMCall(n, 1)>>) : n \in {"double", "processWebhook"}}
  \cup {AMResponse(AMPlan(<<AMCall("double", x)>>, FALSE), <<>>) : x \in Params}

\* Lines 276-288: what the first response is parsed into
AMParsed(resp) ==
  IF resp.content = EmptyContent
  THEN [ok |-> TRUE, calls |-> resp.calls, job |-> FALSE]
  ELSE IF resp.content = TextContent THEN [ok |-> FALSE, calls |-> <<>>, job |-> FALSE]
  ELSE [ok |-> TRUE, calls |-> resp.content.functionCalls, job |-> resp.content.scheduleJob]

\* Lines 294-304: every call is executed, a raised error becomes its result
RECURSIVE AMExecute(_, _)
AMExecute(reg, calls) ==
  IF calls = <<>> THEN [results |-> <<>>, runs |-> <<>>]
  ELSE LET r == IF ~hasFM THEN Returned(Err("Function Manager is not initialized"), <<>>)
                ELSE executeFunction(reg, Head(calls).name, Head(calls).x, NoContext)
           rest == AMExecute(reg, Tail(calls))
       IN [results |-> <<[name |-> Head(calls).name, out |-> r.out]>> \o rest.results,
           runs |-> r.runs \o rest.runs]

AMValue(v) == [k |-> "amResult", v |-> v]
AMUnhandled == [k |-> "amUnhandled", received |-> TRUE, processed |-> FALSE]

\* Lines 219-249 of handleIncomingMessage: reply, acknowledgment, catch block
AMFinish(m, out, eff) == Finish(m, out, eff)

\* processMessageWithLLM once the first sendMessage has returned resp
AMFirst(m, resp) ==
  IF resp.k = "throw" THEN AMFinish(m, Err("provider failure"), NoEffects)
  ELSE LET parsed == AMParsed(resp) IN
       IF ~parsed.ok THEN AMFinish(m, Err("Failed to parse LLM response"), NoEffects)
       ELSE IF parsed.calls # <<>>
       THEN Step("am_wait2", NoResult, <<>>,
                 Effects(AMExecute(registry, parsed.calls).runs, <<>>, 0, 1))
       ELSE IF parsed.job
       THEN IF ~hasJQ THEN AMFinish(m, Err("Job Queue Manager is not initialized"), NoEffects)
            ELSE AMFinish(m, Ok(AMValue("parsed")), Effects(<<>>, <<>>, 1, 0))
       ELSE AMFinish(m, Ok(AMValue("parsed")), NoEffects)

\* A follow-up that executes the calls of the final response as well
AMFollowUp_Recursive(m, resp) ==
  IF resp.k = "throw" THEN AMFinish(m, Err("provider failure"), NoEffects)
  ELSE AMFinish(m, Ok(AMValue("final")),
                Effects(AMExecute(registry, resp.calls \o AMParsed(resp).calls).runs,
                        <<>>, 0, 0))

\* Lines 317-328: the final response is parsed, or kept as text; its calls are
\* not looked at
AMFollowUp(m, resp) ==
  IF resp.k = "throw" THEN AMFinish(m, Err("provider failure"), NoEffects)
  ELSE CASE resp.content = EmptyContent -> AMFinish(m, Ok(AMValue("no content")), NoEffects)
         [] resp.content = TextContent -> AMFinish(m, Ok(AMValue("text")), NoEffects)
         [] OTHER -> AMFinish(m, Ok(AMValue("final")), NoEffects)

AMMessages ==
  {Message(<<"function", "execute">>, r, "double", 1) : r \in BOOLEAN}
  \cup {Message(t, r, Absent, 1) :
          t \in {<<"job", "schedule">>, <<"chat", "ask">>, <<"function", "result">>},
          r \in BOOLEAN}

\* Lines 183-216: the agent LLM decides unless the event is a result
AMRoute(m) ==
  IF hasLLM /\ m.type \notin {<<"function", "result">>, <<"job", "result">>}
  THEN Step("am_wait1", NoResult, <<>>, Effects(<<>>, <<>>, 0, 1))
  ELSE CASE m.type = <<"function", "execute">> ->
              IF ~hasFM THEN AMFinish(m, Err("Function Manager is not initialized"), NoEffects)
              ELSE LET r == executeFunction(registry, m.name, m.x, NoContext)
                   IN AMFinish(m, r.out, Effects(r.runs, <<>>, 0, 0))
         [] m.type \in {<<"job", "schedule">>, <<"job", "status">>} ->
              IF ~hasJQ THEN AMFinish(m, Err("Job Queue Manager is not initialized"), NoEffects)
              ELSE Step("det_wait", NoResult, <<>>, NoEffects)
         [] OTHER -> AMFinish(m, Ok(AMUnhandled), NoEffects)

\* The consumer callback on a well-formed delivery, with AgentManager's handler
AMDeliver(e) ==
  /\ pc[e] = "am_queued"
  /\ \E m \in AMMessages :
       IF isConnected
       THEN /\ Settle(e, <<"ack">>)
            /\ msg' = [msg EXCEPT ![e] = m]
            /\ Apply(e, Received(AMRoute(m)))
       ELSE /\ Settle(e, <<"ack", "nack">>)
            /\ pc' = [pc EXCEPT ![e] = "dropped"]
            /\ UNCHANGED <<msg, result, ackQueue, outgoingQueue, emitted, handlerRuns, mmCalls,
                           jobsAdded>>
  /\ UNCHANGED <<registry, config, jobState, isConnected, mmResponse, mmOutcome, lastOp, creds,
                 llmState>>

\* The first sendMessage of processMessageWithLLM returns or raises
AMFirstResponse(e) ==
  /\ pc[e] = "am_wait1"
  /\ \E resp \in AMResponses :
       /\ Apply(e, AMFirst(msg[e], resp))
       /\ mmResponse' = [mmResponse EXCEPT ![e] = resp]
  /\ UNCHANGED <<registry, config, jobState, isConnected, msg, brokerSettled, mmOutcome, lastOp,
                 creds, llmState>>

\* The follow-up sendMessage returns or raises
AMFinalResponse(e) ==
  /\ pc[e] = "am_wait2"
  /\ \E resp \in AMResponses :
       /\ Apply(e, AMFollowUp(msg[e], resp))
       /\ mmResponse' = [mmResponse EXCEPT ![e] = resp]
  /\ UNCHANGED <<registry, config, jobState, isConnected, msg, brokerSettled, mmOutcome, lastOp,
                 creds, llmState>>

\* Each delivery goes to the agent that consumes the queue: Agent or AgentManager
InitDispatchers ==
  /\ hasFM \in BOOLEAN
  /\ hasJQ \in BOOLEAN
  /\ hasLLM \in BOOLEAN
  /\ registry \in {[EmptyRegistry EXCEPT !["double"] = d, !["processWebhook"] = w] :
                     d \in {Undefined, DoubleDef}, w \in {Undefined, WebhookDef}}
  /\ (~hasFM => registry = EmptyRegistry)
  /\ isConnected = TRUE
  /\ incomingSchemas = {}
  /\ msg = [e \in Events |-> NoMsg]
  /\ pc \in [Events -> {"queued", "am_queued"}]
  /\ result = [e \in Events |-> NoResult]
  /\ ackQueue = [e \in Events |-> <<>>]
  /\ outgoingQueue = [e \in Events |-> <<>>]
  /\ emitted = [e \in Events |-> <<>>]
  /\ brokerSettled = [e \in Events |-> <<>>]
  /\ handlerRuns = [e \in Events |-> <<>>]
  /\ mmCalls = [e \in Events |-> 0]
  /\ jobsAdded = [e \in Events |-> 0]
  /\ mmResponse = [e \in Events |-> NoResult]
  /\ mmOutcome = [e \in Events |-> NoResult]
  /\ lastOp = NoOp
  /\ apiKeys = [a \in PoolNames |-> <<>>]
  /\ invocations = <<>>
  /\ DefaultLLM
  /\ NoJobs

NextDispatchers ==
  \/ Next
  \/ \E e \in Events : AMDeliver(e)
  \/ \E e \in Events : AMFirstResponse(e)
  \/ \E e \in Events : AMFinalResponse(e)

SpecDispatchers == InitDispatchers /\ [][NextDispatchers]_vars

----------------------------------------------------------------------------
(* Properties *)

Delivered(e) == msg[e] # NoMsg
InFlight(e) == pc[e] \in {"mm_wait", "wh_wait", "det_wait"}

HandledTypes ==
  { <<"function", "execute">>, <<"function", "execute", "withmodel">>,
    <<"job", "schedule">>, <<"job", "status">>,
    <<"llm", "generate">>, <<"llm", "completion">>, <<"llm", "chat">> }

MasterModelRaised(e) == mmOutcome[e] # NoResult /\ ~mmOutcome[e].ok

\* C1: an event that was processed has exactly one acknowledgment with its id
\* on the acknowledgment queue, whichever path handled it.
C1_ExactlyOneAck ==
  \A e \in Events : pc[e] = "done" => Len(ackQueue[e]) = 1

\* C2: when the Master Model path raised for an event, the event went through
\* the deterministic switch; as no case of the switch matches a type outside the
\* reserved prefixes, the result is the placeholder (received true, processed
\* false), the Master Model's error is not the result, and the processing
\* acknowledgment is success.
C2_FallbackOnMasterModelError ==
  \A e \in Events :
    MasterModelRaised(e) =>
      /\ pc[e] = "done"
      /\ result[e] = Ok(Placeholder)
      /\ result[e].val.received /\ ~result[e].val.processed
      /\ ackQueue[e] = <<ReceiptAck, ProcessedAck>>

C2_Witness ==
  \E e \in Events :
    /\ msg[e] # NoMsg /\ msg[e].type = <<"chat", "ask">>
    /\ mmOutcome[e] = Err("provider failure")
    /\ result[e] = Ok(Placeholder)

\* C3: while an event whose type starts with function:, job: or llm: is
\* processed, processMasterModelMessage is never invoked.
C3_NoMasterModelOnReservedPrefix ==
  \A e \in Events :
    (Delivered(e) /\ ReservedPrefix(msg[e].type)) => mmCalls[e] = 0

MatchesDirective(c) ==
  c.j = "obj" /\ c.action \in {"executeFunction", "scheduleJob", "sendResponse", "none"}

\* C4: a Master Model response whose content is not one of the four directive
\* shapes makes the dispatcher send a response with the original text as
\* content, and the Master Model path does not raise.
C4_MalformedContentBecomesSendResponse ==
  \A e \in Events :
    (mmResponse[e].k = "content" /\ ~MatchesDirective(mmResponse[e].c)) =>
      /\ mmOutcome[e].ok
      /\ \E i \in 1..Len(outgoingQueue[e]) :
           outgoingQueue[e][i].payload = [content |-> "raw"]

\* C5: no message with the event's id as correlation id is published on the
\* outgoing queue for an event without a reply target.
C5_ReplyOnlyWithReplyTo ==
  \A e \in Events :
    (Delivered(e) /\ ~msg[e].replyTo) =>
      \A i \in 1..Len(outgoingQueue[e]) : outgoingQueue[e][i].corr # "event"

MissingComponent(m) ==
  \/ m.type = <<"function", "execute">> /\ ~hasFM
  \/ m.type = <<"function", "execute", "withmodel">> /\ (~hasFM \/ ~hasLLM)
  \/ m.type \in {<<"job", "schedule">>, <<"job", "status">>} /\ ~hasJQ
  \/ m.type \in {<<"llm", "generate">>, <<"llm", "completion">>, <<"llm", "chat">>} /\ ~hasLLM

\* C6: an error raised on the deterministic path (a missing component, an
\* unregistered capability, a failing handler, a failing provider or job store)
\* ends the event with the error acknowledgment {error: message} as its only
\* processing acknowledgment, and an error acknowledgment is published for no
\* other reason.
C6_ErrorAcknowledged ==
  \A e \in Events :
    pc[e] = "done" =>
      /\ ~result[e].ok => ackQueue[e] = <<ReceiptAck, ErrorAck(result[e].err)>>
      /\ result[e].ok => ackQueue[e] = <<ReceiptAck, ProcessedAck>>
      /\ MissingComponent(msg[e]) => ~result[e].ok
      /\ ( /\ msg[e].type = <<"function", "execute">>
           /\ hasFM
           /\ Lookup(registry, msg[e].name) = Undefined ) => ~result[e].ok

C6_Witness ==
  \E e \in Events :
    /\ pc[e] = "done"
    /\ msg[e].type = <<"function", "execute">>
    /\ ackQueue[e] = <<ReceiptAck, ErrorAck("Function not found")>>

\* C7: an event whose type is no case of the switch, and that the deterministic
\* routing processed (the Master Model path was not taken, or it raised), ends
\* with the placeholder result and a success acknowledgment.
C7_UnrecognizedTypePlaceholder ==
  \A e \in Events :
    ( /\ pc[e] = "done"
      /\ msg[e].type \notin HandledTypes
      /\ (mmOutcome[e] = NoResult \/ ~mmOutcome[e].ok) ) =>
      /\ result[e] = Ok(Placeholder)
      /\ result[e].val.received /\ ~result[e].val.processed
      /\ ackQueue[e] = <<ReceiptAck, ProcessedAck>>

C7_Witness ==
  \E e \in Events :
    /\ pc[e] = "done"
    /\ msg[e].type = <<"function", "other">>
    /\ hasLLM
    /\ result[e] = Ok(Placeholder)

\* C8: a function:execute event for a registered capability whose handler
\* returns a value ends with that value as result and a success acknowledgment;
\* for a name that is not registered it fails with NotFound and no handler runs.
C8_InvokeRegisteredOrNotFound ==
  \A e \in Events :
    (pc[e] = "done" /\ msg[e].type = <<"function", "execute">> /\ hasFM) =>
      IF registry[msg[e].name] # Undefined
      THEN LET h == RunHandler(registry[msg[e].name], msg[e].x, NoContext) IN
           h.out.ok => /\ result[e] = h.out
                       /\ handlerRuns[e] = <<Run(registry[msg[e].name], NoContext)>>
                       /\ ackQueue[e] = <<ReceiptAck, ProcessedAck>>
      ELSE /\ result[e] = Err("Function not found")
           /\ handlerRuns[e] = <<>>

\* C9: a registerFunction call for a name that is registered reports the
\* duplicate error and leaves the registry as it was, so the name still
\* resolves to the definition registered before.
C9_DuplicateRejected ==
  [][ \A n \in AllNames :
        (lastOp'.op = "register" /\ lastOp'.name = n /\ registry[n] # Undefined) =>
          /\ lastOp'.report = "error: already registered"
          /\ registry' = registry
          /\ Lookup(registry', n) = registry[n] ]_vars

C9_Witness ==
  /\ lastOp = Report("register", "double", "error: already registered")
  /\ registry["double"] # Undefined

\* C10: no administrative call replaces the definition registered under a name
\* by a different definition.
C10_NoOverwrite ==
  [][ \A n \in AllNames :
        (registry[n] # Undefined /\ registry'[n] # Undefined) =>
          registry'[n] = registry[n] ]_vars

\* The pool of a credential name holds a usable key
Resolvable(a) ==
  /\ ToLowerCase(a) \in PoolNames
  /\ \E i \in 1..Len(apiKeys[ToLowerCase(a)]) : ~Falsy(apiKeys[ToLowerCase(a)][i])

\* The invocation is of a capability that declares a credential name, by a
\* caller that supplied no key
NeedsKey(c) ==
  /\ registry[c.name] # Undefined
  /\ registry[c.name].apiKeyName # Absent
  /\ Falsy(c.ctx.apiKey)

DrawsBefore(i, a) ==
  Cardinality({j \in 1..(i - 1) :
                 /\ NeedsKey(invocations[j])
                 /\ ToLowerCase(registry[invocations[j].name].apiKeyName) = a})

\* C12: the k-th invocation (counting from 0) that draws a key for a
\* credential name with a pool of n keys is given the key at index k mod n.
C12_RoundRobin ==
  \A i \in 1..Len(invocations) : \A a \in PoolNames :
    LET c == invocations[i]
        n == Len(apiKeys[a])
    IN ( /\ NeedsKey(c)
         /\ ToLowerCase(registry[c.name].apiKeyName) = a
         /\ Resolvable(a) ) =>
         /\ c.runs # <<>>
         /\ c.runs[1].ctx.apiKey = apiKeys[a][(DrawsBefore(i, a) % n) + 1]

LLMStep == llmSteps' # llmSteps

\* C13: the Master Model configuration exists after every call;
\* unregisterModel('masterModel') raises and changes neither the model registry
\* nor the Master Model config; the model:delete request for masterModel is
\* rejected and changes neither.
C13_MasterModelCannotBeDeleted ==
  [][ /\ masterModel' # Undefined
      /\ ( /\ LLMStep
           /\ llmCall'.op \in {"unregisterModel", "model:delete"}
           /\ lastOp'.name = "masterModel" ) =>
           /\ lastOp'.report \in {"error: cannot unregister the Master Model",
                                  "error: cannot delete"}
           /\ modelRegistry' = modelRegistry
           /\ masterModel' = masterModel ]_vars

C13_Witness ==
  /\ lastOp = Report("unregisterModel", "masterModel",
                     "error: cannot unregister the Master Model")
  /\ modelRegistry["masterModel"] # Undefined
  /\ masterModel.systemPrompt = "custom"

\* C14: registerModel(id, c) makes getModelConfig(id) return c; a call that
\* neither registers nor unregisters leaves every getModelConfig result as it
\* was; getModelConfig of an id that was never registered returns undefined.
C14_RegistryRoundTrip ==
  [][ /\ (LLMStep /\ llmCall'.op = "registerModel") =>
           getModelConfig(modelRegistry', llmCall'.id) = llmCall'.config
      /\ (LLMStep /\ llmCall'.op \in {"updateMasterModel", "updateConfig", "getModelConfig",
                                      "processMasterModelMessage"}) =>
           \A id \in ModelIds :
             getModelConfig(modelRegistry', id) = getModelConfig(modelRegistry, id)
      /\ (LLMStep /\ llmCall'.op = "getModelConfig") =>
           /\ llmCall'.out = getModelConfig(modelRegistry, llmCall'.id)
           /\ modelRegistry' = modelRegistry
           /\ (lastOp = NoOp /\ agentLLM.models[llmCall'.id] = Undefined) =>
                llmCall'.out = Undefined ]_vars

\* C18: while the Master Model's prompt is the customized one, no call other
\* than updateMasterModel changes the system prompt of the next decision request.
C18_CustomPromptKept ==
  [][ ( /\ LLMStep
        /\ masterModel.systemPrompt = "custom"
        /\ llmCall'.op # "updateMasterModel" ) =>
        MasterPrompt(masterModel', modelRegistry', listFunctions(registry'))
          = Text("custom") ]_vars

\* C19: every decision request holds the context turn and an instruction turn
\* that describes the directives and lists the capability names registered at
\* the time of the call.
C19_DecisionRequestHasInstructions ==
  (llmCall.op = "processMasterModelMessage" /\ llmCall.request # <<>>) =>
    /\ \E i \in 1..Len(llmCall.request) : llmCall.request[i].content = ContextMessage
    /\ \E i \in 1..Len(llmCall.request) :
         /\ llmCall.request[i].content.directives
         /\ llmCall.request[i].content.names = listFunctions(registry)

Registered(id) == id \in ModelIds /\ modelRegistry[id] # Undefined

\* C15: sendMessage uses the registry entry of modelId with the options on top
\* (an option wins over the entry's value of the same field); when modelId is
\* unset or not registered it uses the default config with the options on top,
\* and the call goes the way it goes without a modelId.
C15_EffectiveConfig ==
  llmCall.op = "sendMessage" =>
    LET base == IF Registered(llmCall.modelId) THEN modelRegistry[llmCall.modelId]
                ELSE llmConfig
    IN /\ \A f \in ConfigFields :
            llmCall.config[f] = IF llmCall.options[f] # Absent THEN llmCall.options[f]
                                ELSE base[f]
       /\ ~Registered(llmCall.modelId) =>
            llmCall.sent = Dispatch(clients, Merge(llmConfig, llmCall.options),
                                    llmCall.messages)

Adapters == {"openai", "anthropic"}

\* C16: sendMessage enters the adapter of the effective config's provider; for
\* a provider without an adapter it raises the unsupported-provider error and
\* enters no adapter; for a provider with an adapter whose credential resolves
\* the adapter makes its request, whatever the default config's provider is.
C16_AdapterByProvider ==
  llmCall.op = "sendMessage" =>
    /\ llmCall.config.provider \notin Adapters =>
         /\ llmCall.sent.adapter = Absent
         /\ llmCall.sent.threw \in {"Unsupported LLM provider",
                                    "Google AI integration not yet implemented"}
    /\ ( /\ llmCall.config.provider \in Adapters
         /\ ~Falsy(llmGetApiKey(llmApiKeys, llmCall.config.apiKeyName)) ) =>
         /\ llmCall.sent.adapter = llmCall.config.provider
         /\ llmCall.sent.threw = Absent

TurnContents(turns) == [i \in 1..Len(turns) |-> turns[i].content]
SystemFirst(turns) == \A i \in 1..Len(turns) : turns[i].role = "system" => i = 1

\* C17: for a chat call that returns, the turns requested of the provider and
\* the updatedHistory hold a system turn at most as their first turn, and they
\* are the history and the new user turn (and the reply, in updatedHistory) with
\* the config's systemPrompt in front exactly when the history does not start
\* with a system turn and the config has a systemPrompt.
C17_OneSystemTurnFirst ==
  (llmCall.op = "chat" /\ llmCall.out.ok) =>
    LET h == llmCall.history
        prompt == IF (h = <<>> \/ h[1].role # "system") /\ llmCall.config.systemPrompt # Absent
                  THEN <<Text(llmCall.config.systemPrompt)>> ELSE <<>>
        expected == prompt \o TurnContents(h) \o <<UserTurn.content>>
    IN /\ SystemFirst(llmCall.sent.turns)
       /\ SystemFirst(llmCall.out.val)
       /\ TurnContents(llmCall.sent.turns) = expected
       /\ TurnContents(llmCall.out.val) = expected \o <<AssistantTurn.content>>

FromContent(o) == o.payload \in {[content |-> "raw"], [content |-> "directive"]}

\* C20: when the Master Model's response to an event carries a tool call, the
\* outcome is that of the Capability Registry's executeFunction on that call,
\* the handler of the named capability is entered once and no other handler is,
\* its context holds the event's id and type, and the content of the response
\* is not acted upon: no message and no job comes of it.
C20_ToolCallExecutedDirectly ==
  \A e \in Events :
    mmResponse[e].k = "toolcall" =>
      LET call == mmResponse[e]
          def == Lookup(registry, call.name)
      IN /\ mmOutcome[e] =
              executeFunction(registry, call.name, call.x, MessageCtx(msg[e].type)).out
         /\ Len(handlerRuns[e]) <= 1
         /\ (def \in Defs /\ def.apiKeyName = Absent) => Len(handlerRuns[e]) = 1
         /\ \A i \in 1..Len(handlerRuns[e]) :
              /\ handlerRuns[e][i].func = def
              /\ handlerRuns[e][i].ctx.messageId
              /\ handlerRuns[e][i].ctx.messageType = msg[e].type
         /\ \A i \in 1..Len(outgoingQueue[e]) : ~FromContent(outgoingQueue[e][i])
         /\ jobsAdded[e] = 0

C20_Witness ==
  \E e \in Events :
    /\ mmResponse[e].k = "toolcall"
    /\ mmResponse[e].c = Directive("sendResponse", Absent, NoParams, Absent, Absent)
    /\ handlerRuns[e] = <<Run(DoubleDef, MessageCtx(msg[e].type))>>
    /\ result[e] = Ok(Num(2 * mmResponse[e].x))
    /\ msg[e].replyTo

\* sendMessage calls made for the event: one for each processMasterModelMessage
\* invocation that got past its checks (line 561)
ModelCalls(e) == IF MMPrecheck = NoResult THEN mmCalls[e] ELSE 0

Finished(e) == pc[e] \in {"done", "rejected"}

\* C21: when the Master Model's response to an event carries a tool call for a
\* registered capability, the capability's handler is entered once, and two
\* model calls are made for the event: the one that returned the tool call and
\* one follow-up whose text is the event's result.
C21_ToolCallThenFollowUp ==
  \A e \in Events :
    ( /\ Finished(e)
      /\ mmResponse[e].k = "toolcall"
      /\ Lookup(registry, mmResponse[e].name) \in Defs ) =>
      /\ Len(handlerRuns[e]) = 1
      /\ ModelCalls(e) = 2

\* C22: at most two model calls are made for an event, whatever the model
\* returns, and the step that receives the follow-up response enters no
\* capability handler, whether or not that response carries tool calls.
C22_OneRoundOfToolCalls ==
  /\ [](\A e \in Events : mmCalls[e] <= 2)
  /\ [][\A e \in Events : pc[e] = "am_wait2" => handlerRuns'[e] = handlerRuns[e]]_vars

C22_Witness ==
  \E e \in Events :
    /\ Finished(e)
    /\ mmCalls[e] = 2
    /\ mmResponse[e] = AMResponse(EmptyContent, <<AMCall("double", 1)>>)
    /\ handlerRuns[e] = <<Run(DoubleDef, NoContext)>>
    /\ result[e] = Ok(AMValue("no content"))

IsDirective(resp, a) == resp.k = "content" /\ resp.c.j = "obj" /\ resp.c.action = a

\* C23: an executeFunction directive without a functionName or without params
\* makes processMasterModelMessage raise 'Invalid function execution request',
\* and no capability handler is entered for the event.
C23_InvalidDirectiveRaises ==
  \A e \in Events :
    ( /\ IsDirective(mmResponse[e], "executeFunction")
      /\ (mmResponse[e].c.functionName = Absent \/ mmResponse[e].c.params = NoParams) ) =>
      /\ mmOutcome[e] = Err("Invalid function execution request")
      /\ handlerRuns[e] = <<>>

C23_Witness ==
  \E e \in Events :
    /\ mmResponse[e] =
         [k |-> "content", c |-> Directive("executeFunction", "double", NoParams, Absent, Absent)]
    /\ registry["double"] = DoubleDef
    /\ mmOutcome[e] = Err("Invalid function execution request")
    /\ Finished(e)

JobTypes == {<<"job", "schedule">>, <<"job", "status">>}

\* C24: without a Job Queue Manager a scheduleJob directive makes
\* processMasterModelMessage raise 'Job Queue Manager not available' and no job
\* is submitted; a job:schedule or job:status event ends with the error 'Job
\* Queue Manager is not initialized', no job submitted, and an error
\* acknowledgment as its processing acknowledgment.
C24_NoSubmitterIsAnError ==
  \A e \in Events :
    /\ (IsDirective(mmResponse[e], "scheduleJob") /\ ~hasJQ) =>
         /\ mmOutcome[e] = Err("Job Queue Manager not available")
         /\ jobsAdded[e] = 0
    /\ (Delivered(e) /\ Finished(e) /\ msg[e].type \in JobTypes /\ ~hasJQ) =>
         /\ result[e] = Err("Job Queue Manager is not initialized")
         /\ jobsAdded[e] = 0
         /\ ackQueue[e] = <<ReceiptAck, ErrorAck("Job Queue Manager is not initialized")>>

C24_Witness ==
  \E e \in Events :
    /\ ~hasJQ
    /\ mmResponse[e] = [k |-> "content", c |-> Directive("scheduleJob", Absent, NoParams, "job", "data")]
    /\ mmOutcome[e] = Err("Job Queue Manager not available")
    /\ Finished(e)

\* C25: the step that receives a none directive for an event makes
\* {action: none} the outcome of processMasterModelMessage and the result of
\* the event, enters no capability handler, submits no job, makes no model
\* call and changes neither the capability registry nor the model registry.
C25_NoneHasNoEffect ==
  [][ \A e \in Events :
        (pc[e] = "mm_wait" /\ IsDirective(mmResponse'[e], "none")) =>
          /\ mmOutcome'[e] = Ok(NoneResult)
          /\ result'[e] = Ok(NoneResult)
          /\ handlerRuns' = handlerRuns
          /\ jobsAdded' = jobsAdded
          /\ mmCalls' = mmCalls
          /\ registry' = registry
          /\ modelRegistry' = modelRegistry /\ masterModel' = masterModel ]_vars

C25_Witness ==
  \E e \in Events :
    /\ IsDirective(mmResponse[e], "none")
    /\ result[e] = Ok(NoneResult)
    /\ pc[e] = "done"
    /\ mmCalls[e] = 1

\* The content field of the directive that the model returned
DirectiveContent == [k |-> "content", content |-> "directive"]

\* C26: when the Master Model returned a sendResponse directive for an event,
\* the event's result is the directive's content, and so is the payload of the
\* reply published for an event that has a reply target.
C26_SendResponseVerbatim ==
  \A e \in Events :
    (pc[e] = "done" /\ IsDirective(mmResponse[e], "sendResponse")) =>
      /\ result[e] = Ok(DirectiveContent)
      /\ msg[e].replyTo =>
           outgoingQueue[e][Len(outgoingQueue[e])] =
             Outgoing("response", DirectiveContent, "event")

Stored(id) == \E n \in 1..MaxJobs : jobStore[n] # Undefined /\ jobStore[n].id = id
StoredState(id) ==
  jobStore[CHOOSE n \in 1..MaxJobs : jobStore[n] # Undefined /\ jobStore[n].id = id].state
Query(op) == jobStore' = jobStore /\ jobCall'.op = op

\* C27: getJobStatus of an id that addJob returned, while that job is in the
\* store, returns the job's status; getJobStatus of an id that addJob never
\* returned gives null, and getJobResult of such an id raises 'not found'.
C27_HandleIdentifiesJob ==
  [][ /\ Query("getJobStatus") =>
           /\ (jobCall'.id \in jobHandles /\ Stored(jobCall'.id)) =>
                jobCall'.out = JobStatus(StoredState(jobCall'.id))
           /\ jobCall'.id \notin jobHandles => jobCall'.out = Null
      /\ Query("getJobResult") =>
           (jobCall'.id \notin jobHandles => jobCall'.out = Err("Job not found")) ]_vars

\* Receipt acknowledgments published for the delivery: one per pass of the
\* consumer callback that reached emit('message')
ReceiptAcks(e) == Cardinality({i \in DOMAIN ackQueue[e] : ackQueue[e][i] = ReceiptAck})

Ended(e) == pc[e] \in {"done", "rejected", "dropped"}

\* C29: what is published for an event comes in the order receipt, messages of
\* the execution, reply, processing acknowledgment. The reply comes after every
\* message of the execution and right before the success acknowledgment that
\* ends the task; the acknowledgment of the processing, success or error, is the
\* last publication, so nothing follows an error acknowledgment; and an ended
\* task publishes nothing and runs no handler any more.
C29_StepsInOrder ==
  /\ [](\A e \in Events :
         LET t == emitted[e] IN
         \A i \in 1..Len(t) :
           /\ t[i].at = "receipt" => i = 1
           /\ t[i].at = "reply" =>
                /\ \A j \in 1..Len(t) : t[j].at \in {"receipt", "published"} => j < i
                /\ i + 1 = Len(t) /\ t[i + 1] = Emit("ack", ProcessedAck)
           /\ t[i].at = "ack" => i = Len(t) /\ Ended(e)
           /\ (t[i].at = "ack" /\ t[i].m.status = "error") =>
                \A j \in 1..Len(t) : j > i => t[j].at # "reply" /\ t[j].m # ProcessedAck)
  /\ [][\A e \in Events :
          Ended(e) => /\ emitted'[e] = emitted[e] /\ pc'[e] = pc[e]
                      /\ handlerRuns'[e] = handlerRuns[e] /\ mmCalls'[e] = mmCalls[e]
                      /\ ackQueue'[e] = ackQueue[e]
                      /\ outgoingQueue'[e] = outgoingQueue[e]]_vars

\* A Master Model event with a reply target whose directive published a message:
\* receipt, the directive's message, the reply, the acknowledgment
C29_Witness ==
  \E e \in Events :
    /\ pc[e] = "done" /\ Len(emitted[e]) = 4
    /\ emitted[e][1].at = "receipt" /\ emitted[e][2].at = "published"
    /\ emitted[e][3].at = "reply" /\ emitted[e][4] = Emit("ack", ProcessedAck)

\* C30: no task ends rejected, whatever fails while the event is processed, the
\* publication of its reply or acknowledgment included; and a step of one
\* event's task leaves the result and the acknowledgments of every other event
\* as they were.
C30_NeverRejects ==
  /\ [](\A e \in Events : pc[e] # "rejected")
  /\ [][\A e \in Events :
          (result'[e] # result[e] \/ ackQueue'[e] # ackQueue[e]) =>
            \A f \in Events \ {e} :
              result'[f] = result[f] /\ ackQueue'[f] = ackQueue[f]]_vars

\* A suspended task resumes: the call it waits for returns or raises
Resume(e) ==
  \/ MMRespond(e)
  \/ WebhookRespond(e)
  \/ DetReturn(e)

\* C31: while the task of one event is suspended, every other event that is
\* queued can be delivered and started and every other suspended task can
\* resume, and a step publishes
\* acknowledgments and sets a result for its own event only.
C31_IndependentTasks ==
  /\ [](\A e \in Concurrent : \A f \in Concurrent \ {e} :
          InFlight(e) => /\ pc[f] = "queued" => ENABLED Deliver(f)
                         /\ InFlight(f) => ENABLED Resume(f))
  /\ [][\A e \in Concurrent :
          (pc'[e] # pc[e]) =>
            \A f \in Concurrent \ {e} :
              /\ ackQueue'[f] = ackQueue[f] /\ result'[f] = result[f]
              /\ outgoingQueue'[f] = outgoingQueue[f] /\ pc'[f] = pc[f]]_vars

\* An event delivered and acknowledged while the task of another is suspended
C31_Witness ==
  \E e \in Concurrent : \E f \in Concurrent \ {e} :
    /\ InFlight(e) /\ pc[f] = "done"
    /\ ackQueue[f][Len(ackQueue[f])] = ProcessedAck
    /\ ackQueue[e] = <<ReceiptAck>>

\* The agent shut down at any moment, where every pending model call,
\* capability and job store call returns or raises in the end
SpecShutdownLive == SpecShutdown /\ \A e \in Events : WF_vars(Resume(e))

\* The acknowledgments handleIncomingMessage published for the event
ProcessingAcks(e) ==
  {i \in 1..Len(ackQueue[e]) : ackQueue[e][i] # ReceiptAck}

\* C32: every event handed to the dispatcher is in the end acknowledged by
\* it, with status success or error, also when the agent is shut down while
\* the event is in flight.
C32_EventuallyAcknowledged ==
  \A e \in Events : Delivered(e) ~> (ProcessingAcks(e) # {})

\* C33: whatever the administrative calls did to the registry, the schemas are
\* one per registered name, each that of the definition registered under the
\* name it carries, and none carries a name that is not registered; a request
\* offers them all, or no functions when there is none.
C33_SchemasAreTheRegistry ==
  LET schemas == getAllFunctionSchemas(registry)
      offered == prepareFunctionCalling(hasFM, registry)
  IN /\ {schemas[n].name : n \in DOMAIN schemas} = listFunctions(registry)
     /\ Cardinality(DOMAIN schemas) = Cardinality(listFunctions(registry))
     /\ \A n \in DOMAIN schemas : schemas[n] = Schema(registry[schemas[n].name])
     /\ hasFM => IF listFunctions(registry) = {} THEN offered = Undefined
                 ELSE offered = schemas

\* A capability was deleted and another saved under a new definition
C33_Witness ==
  /\ hasFM /\ lastOp.op = "delete" /\ lastOp.report = "success"
  /\ registry["processWebhook"] = Undefined
  /\ registry["double"] = Def("double", "triple")
  /\ DOMAIN prepareFunctionCalling(hasFM, registry) = {"double"}

\* The event went to the Master Model, whose call raised
FellBack(e) ==
  /\ Delivered(e) /\ UseMasterModel(msg[e])
  /\ mmOutcome[e] # NoResult /\ ~mmOutcome[e].ok

\* C34: while an event is processed at most one capability handler is entered
\* and at most one job is submitted, and an event that fell back from the
\* Master Model ends with the placeholder of the unrecognized type.
C34_WorkDoneOnce ==
  \A e \in Events :
    /\ Len(handlerRuns[e]) <= 1
    /\ jobsAdded[e] <= 1
    /\ (FellBack(e) /\ pc[e] = "done") => result[e] = Ok(Placeholder)

\* Messages on the outgoing queue that carry the event's id as correlation id
Responses(e) ==
  {i \in 1..Len(outgoingQueue[e]) : outgoingQueue[e][i].corr = "event"}

\* C35: the acknowledgments handleIncomingMessage publishes for an event are
\* never a success one and an error one together, and at most one message for
\* the event goes on the outgoing queue.
C35_OneOutcomePerEvent ==
  \A e \in Events :
    /\ ~(\E i, j \in ProcessingAcks(e) :
           ackQueue[e][i].status = "success" /\ ackQueue[e][j].status = "error")
    /\ Cardinality(Responses(e)) <= 1

\* C36: a decision call is made with the provider and the sampling parameters
\* of the Master Model config that getMasterModelConfig reports, and with its
\* system prompt when it has one.
C36_ReportedConfigIsUsed ==
  [][(llmCall'.op = "processMasterModelMessage" /\ llmCall'.request # <<>>) =>
       /\ llmCall'.config.provider = masterModel.provider
       /\ llmCall'.config.temperature = masterModel.temperature
       /\ masterModel.systemPrompt # Absent =>
            llmCall'.request[1].content = Text(masterModel.systemPrompt)]_vars

\* C37: a delivery is settled with the broker by one call, ack or nack, once
\* the callback has run, also when the receipt acknowledgment could not be
\* published.
C37_SettledExactlyOnce ==
  \A e \in Events :
    /\ Len(brokerSettled[e]) <= 1
    /\ pc[e] # "queued" => Len(brokerSettled[e]) = 1

\* The validator rejected the payload of the event's message
Invalid(e) == msg[e] # NoMsg /\ "invalid" \in DOMAIN msg[e]

C39_LoadedWhenInitialized ==
  /\ \A n \in CapNames : registry[n] # Undefined
  /\ \A e \in Events :
       (Delivered(e) /\ msg[e].type = <<"function", "execute">> /\ msg[e].name \in CapNames)
         => result[e] # Err("Function not found")

====
